---- MODULE Spec2Model ----
(***************************************************************************)
(* Agentic-BeesTrap sentinel agent: the mempool listener (indexer.rs), the *)
(* bounded transfer channel (main.rs) and the detection stage              *)
(* (processor.rs, network.rs).                                             *)
(*                                                                         *)
(* Enrichment tasks are anonymous in the code (tokio::spawn, detached), so *)
(* they are kept as counts per phase.  The tasks and the semaphore of the  *)
(* running session are kept apart from those of the sessions that have     *)
(* already returned: a returned session's semaphore is no longer reachable *)
(* from the listener, only from the tasks that still hold its permits.     *)
(***************************************************************************)
EXTENDS Integers, Sequences, FiniteSets, TLC

\* Semaphore::new(10) in run_listener_session
PERMITS == 10

\* mpsc::channel::<PendingTransaction>(100) in main
CHANNEL_CAPACITY == 100

\* sleep(Duration::from_secs(5)) in spawn_mempool_listener
RETRY_DELAY_SECS == 5

\* how many times run_listener_session gets as far as its select loop
MaxSessions == 2

\* how many events spawn_processor takes from the channel
MaxEvents == 2

\* Config::confidence_threshold, default "0.8", in hundredths
CONFIDENCE_THRESHOLD == 80

\* the cap of SentinelStats::history_saved
HISTORY_CAP == 100

\* how many events are scanned in the long-run view of the statistics
MaxScans == 101

\* TX_COUNTER.fetch_add(1) % 150
TX_INDEX_MODULUS == 150

\* sender addresses of the observed transactions
Addresses == {"0xa1"}

\* What spawn_processor can receive: PendingTransaction, with value in units
\* of 1e15 wei and gas_price in wei (0 for None).  
Events ==
    { [hash |-> "h1", from |-> "0xa1", value |-> 2000, gas_limit |-> 21000, gas_price |-> 100000] }

\* confidences the scoring session can return, in hundredths
Confidences == {79, 80, 81}

VARIABLES
    sup_pc,          \* where spawn_mempool_listener / run_listener_session stands
    session_result,  \* what the last run_listener_session returned, while sleeping
    sleep_secs,      \* the duration handed to sleep, while sleeping
    sessions,        \* sessions that reached the select loop so far
    block_open,      \* block_stream still yields Some(header)
    tx_open,         \* tx_stream still yields Some(tx_hash)
    last_tx,         \* what the tx branch did with the latest identifier of the
                     \* running session: "none" yet, "spawned" or "dropped"
    permits,         \* free permits: ["cur"] of the running session's semaphore,
                     \* ["old"] of the returned sessions' semaphores, summed
    fetching,        \* enrichment tasks awaiting get_transaction_by_hash, per bucket
    sending,         \* enrichment tasks suspended in sender.send(event).await, per bucket
    tx_queued,       \* events held by the transfer channel
    proc_pc,         \* where spawn_processor stands: "init", "recv" or "failed"
    det,             \* the detection tasks spawned by spawn_processor, in spawn order
    session_lock,    \* holder of Mutex<Session> (index into det), 0 when free
    stats_lock,      \* holder of Mutex<SentinelStats>, 0 when free
    stats,           \* the shared SentinelStats
    tx_counter,      \* the static TX_COUNTER of process_transaction
    predators,       \* addresses the hook contract answers isPredator = true for
    call,            \* the call of a pure function of processor.rs that is followed
                     \* on its own: its name, its argument and, once done, its result
    main,            \* where main stands, whether HEADLESS is set, and once it has
                     \* returned, what it returned and what made it return
    flow,            \* events followed one by one from the end of their enrichment
                     \* to their score: the events, the transfer channel's contents
                     \* and the UI channel's contents, in order
    app              \* the App of run_tui: how many transactions and log entries
                     \* it lists, the selected row of its table, and whether the
                     \* interface is running or has panicked

listener_vars == <<sup_pc, session_result, sleep_secs, sessions, block_open, tx_open,
                   last_tx>>
task_vars == <<permits, fetching, sending>>
chan_vars == <<tx_queued, proc_pc>>
det_vars == <<det, session_lock, stats_lock, stats, tx_counter, predators>>
vars == <<listener_vars, task_vars, chan_vars, det_vars, call, main, flow, app>>

\* "cur": the running session; "old": every session that has returned
Buckets == {"cur", "old"}

NoTasks == [b \in Buckets |-> 0]

\* no pure function is followed on its own
NoCall == [fn |-> "none"]

\* no event is followed one by one
NoFlow == [ev |-> <<>>, chan |-> <<>>, ui |-> <<>>]

\* main has spawned the listener and the processor and runs the terminal UI
Serving == [pc |-> "serving", headless |-> FALSE, result |-> "none", by |-> "none"]

\* SentinelStats::default().  eth_saved is kept in units of 1e-5 ETH and
\* efficiency_boost in whole percent.
NoStats ==
    [total_scanned |-> 0, total_detected |-> 0, total_trapped |-> 0,
     zk_proofs_generated |-> 0, eth_saved |-> 0, gas_saved |-> 0,
     efficiency_boost |-> 0, history_saved |-> <<>>]

\* TableState::selected() = None
NoneSelected == [some |-> FALSE, top |-> FALSE, n |-> 0]

\* App::new(): nothing listed, nothing logged, no row selected
NewApp ==
    [recent_transactions |-> 0, logs |-> 0, selected |-> NoneSelected,
     last_confidence |-> 0, pc |-> "running"]

TypeOK ==
    /\ sup_pc \in {"start", "failed", "aborted",
                  "connect", "subscribe", "select", "got_header", "got_tx_hash", "sleep"}
    /\ main.pc \in {"build_client", "serving", "returned"}
    /\ main.headless \in BOOLEAN
    /\ main.result \in {"none", "Ok", "Err"}
    /\ session_result \in {"none", "Ok", "Err"}
    /\ sleep_secs \in Nat
    /\ sessions \in 0..(MaxSessions + 1)
    /\ block_open \in BOOLEAN /\ tx_open \in BOOLEAN
    /\ last_tx \in {"none", "spawned", "dropped"}
    /\ permits \in [Buckets -> Nat]
    /\ fetching \in [Buckets -> Nat]
    /\ sending \in [Buckets -> Nat]
    /\ tx_queued \in Nat
    /\ proc_pc \in {"init", "recv", "failed", "aborted"}
    /\ session_lock \in 0..Len(det) /\ stats_lock \in 0..Len(det)
    /\ tx_counter \in Nat
    /\ predators \subseteq Addresses
    /\ call.fn \in {"none", "select_confidence", "extract_proof_from_calldata",
                   "extract_public_output", "parse_val", "normalize_features"}

Init ==
    /\ sup_pc = "connect"
    /\ session_result = "none"
    /\ sleep_secs = 0
    /\ sessions = 0
    /\ block_open = FALSE /\ tx_open = FALSE
    /\ last_tx = "none"
    /\ permits = NoTasks /\ fetching = NoTasks /\ sending = NoTasks
    /\ tx_queued = 0
    /\ proc_pc = "init"
    /\ det = <<>>
    /\ session_lock = 0 /\ stats_lock = 0
    /\ stats = NoStats
    /\ tx_counter = 0
    /\ predators = {}
    /\ main = Serving
    /\ flow = NoFlow
    /\ app = NewApp
    /\ call = NoCall

-----------------------------------------------------------------------------
(* spawn_mempool_listener: the supervisor loop *)

\* the tasks and permits of the running session join those of the returned ones
Retire(f) == [b \in Buckets |-> IF b = "old" THEN f["old"] + f["cur"] ELSE 0]

\* run_listener_session returns r: its semaphore and the tasks that hold its
\* permits live on; the supervisor logs r and sleeps for the fixed delay.
SessionReturns(r) ==
    /\ sup_pc' = "sleep"
    /\ session_result' = r
    /\ sleep_secs' = RETRY_DELAY_SECS
    /\ block_open' = FALSE /\ tx_open' = FALSE
    /\ last_tx' = "none"
    /\ permits' = Retire(permits)
    /\ fetching' = Retire(fetching)
    /\ sending' = Retire(sending)
    /\ UNCHANGED <<app, flow, main, call, sessions, chan_vars, det_vars>>

\* a supervisor with a retry limit: it gives up after a failed session
SleepElapsed_GivesUp ==
    /\ sup_pc = "sleep"
    /\ sup_pc' = IF session_result = "Err" THEN "returned" ELSE "connect"
    /\ session_result' = "none"
    /\ sleep_secs' = 0
    /\ UNCHANGED <<app, flow, main, call, sessions, block_open, tx_open, last_tx, task_vars, chan_vars, det_vars>>

\* sleep(5 s) elapses and the loop calls run_listener_session again
SleepElapsed ==
    /\ sup_pc = "sleep"
    /\ sup_pc' = "connect"
    /\ session_result' = "none"
    /\ sleep_secs' = 0
    /\ UNCHANGED <<app, flow, main, call, sessions, block_open, tx_open, last_tx, task_vars, chan_vars, det_vars>>

-----------------------------------------------------------------------------
(* run_listener_session *)

\* ProviderBuilder::on_ws succeeds; NetworkUpdate{connected} goes to the UI
ConnectOk ==
    /\ sup_pc = "connect"
    /\ sup_pc' = "subscribe"
    /\ UNCHANGED <<app, flow, main, call, session_result, sleep_secs, sessions, block_open, tx_open,
                   last_tx, task_vars, chan_vars, det_vars>>

\* on_ws(ws).await? fails
ConnectFails ==
    /\ sup_pc = "connect"
    /\ SessionReturns("Err")

\* subscribe_blocks / subscribe_pending_transactions succeed; the session's
\* semaphore is created and the select loop entered
SubscribeOk ==
    /\ sup_pc = "subscribe"
    /\ sup_pc' = "select"
    /\ sessions' = sessions + 1
    /\ block_open' = TRUE /\ tx_open' = TRUE
    /\ permits' = [permits EXCEPT !["cur"] = PERMITS]
    /\ UNCHANGED <<app, flow, main, call, session_result, sleep_secs, last_tx, fetching, sending, chan_vars, det_vars>>

\* subscribe_blocks().await? or subscribe_pending_transactions().await? fails
SubscribeFails ==
    /\ sup_pc = "subscribe"
    /\ SessionReturns("Err")

InLoop == sup_pc \in {"select", "got_header", "got_tx_hash"}

\* the node ends the block-header subscription: block_stream.next() is None from now on
BlockStreamEnds ==
    /\ InLoop /\ block_open
    /\ sessions < MaxSessions
    /\ block_open' = FALSE
    /\ UNCHANGED <<app, flow, main, call, sup_pc, session_result, sleep_secs, sessions, tx_open,
                   last_tx, task_vars, chan_vars, det_vars>>

\* the node ends the pending-transaction subscription
TxStreamEnds ==
    /\ InLoop /\ tx_open
    /\ sessions < MaxSessions
    /\ tx_open' = FALSE
    /\ UNCHANGED <<app, flow, main, call, sup_pc, session_result, sleep_secs, sessions, block_open,
                   last_tx, task_vars, chan_vars, det_vars>>

\* tokio::select! branch `Some(header) = block_stream.next()`
SelectHeader ==
    /\ sup_pc = "select" /\ block_open
    /\ sup_pc' = "got_header"
    /\ UNCHANGED <<app, flow, main, call, session_result, sleep_secs, sessions, block_open, tx_open,
                   last_tx, task_vars, chan_vars, det_vars>>

\* tokio::select! branch `Some(tx_hash) = tx_stream.next()`
SelectTxHash ==
    /\ sup_pc = "select" /\ tx_open
    /\ sup_pc' = "got_tx_hash"
    /\ UNCHANGED <<app, flow, main, call, session_result, sleep_secs, sessions, block_open, tx_open,
                   last_tx, task_vars, chan_vars, det_vars>>

\* tokio::select! runs `else` only once every branch is disabled, that is once
\* both streams have answered None
SelectElse == ~block_open /\ ~tx_open

\* `else => break`, then Ok(())
SelectBreak ==
    /\ sup_pc = "select" /\ SelectElse
    /\ SessionReturns("Ok")

\* the header branch: NetworkUpdate to the UI, back to select
HandleHeader ==
    /\ sup_pc = "got_header"
    /\ sup_pc' = "select"
    /\ UNCHANGED <<app, flow, main, call, session_result, sleep_secs, sessions, block_open, tx_open,
                   last_tx, task_vars, chan_vars, det_vars>>

\* an admission that never finds the pool exhausted
TryAcquireOk_Always == TRUE

\* semaphore.clone().try_acquire_owned(): Ok(permit) iff a permit is free
TryAcquireOk == permits["cur"] > 0

\* the tx branch: try_acquire_owned, then tokio::spawn of the enrichment task,
\* or `continue` when no permit is free
HandleTxHash ==
    /\ sup_pc = "got_tx_hash"
    /\ sup_pc' = "select"
    /\ IF TryAcquireOk
         THEN /\ permits' = [permits EXCEPT !["cur"] = @ - 1]
              /\ fetching' = [fetching EXCEPT !["cur"] = @ + 1]
              /\ last_tx' = "spawned"
         ELSE /\ last_tx' = "dropped"
              /\ UNCHANGED <<permits, fetching>>
    /\ UNCHANGED <<app, flow, main, call, session_result, sleep_secs, sessions, block_open, tx_open,
                   sending, chan_vars, det_vars>>

-----------------------------------------------------------------------------
(* the enrichment task spawned by run_listener_session, and the indexer's  *)
(* process_transaction                                                      *)

\* a task that ends without giving its permit back
DropPermit_Leaked(b) == permits

\* `let _permit = permit;` is dropped when the task's future completes
DropPermit(b) == [permits EXCEPT ![b] = @ + 1]

\* get_transaction_by_hash answers Ok(None): the task ends
FetchNotFound(b) ==
    /\ fetching[b] > 0
    /\ fetching' = [fetching EXCEPT ![b] = @ - 1]
    /\ permits' = DropPermit(b)
    /\ UNCHANGED <<app, flow, main, call, listener_vars, sending, chan_vars, det_vars>>

\* get_transaction_by_hash answers Err(e): debug note, the task ends
FetchError(b) ==
    /\ fetching[b] > 0
    /\ fetching' = [fetching EXCEPT ![b] = @ - 1]
    /\ permits' = DropPermit(b)
    /\ UNCHANGED <<app, flow, main, call, listener_vars, sending, chan_vars, det_vars>>

\* try_send instead of send: a full channel refuses the event at once
SendOutcome_TrySend ==
    IF proc_pc = "failed" THEN "closed"
    ELSE IF tx_queued < CHANNEL_CAPACITY THEN "ready" ELSE "closed"

\* Sender::send on the bounded channel: "closed" once the receiver is gone,
\* "ready" while a slot is free, "wait" otherwise
SendOutcome ==
    IF proc_pc = "failed" THEN "closed"
    ELSE IF tx_queued < CHANNEL_CAPACITY THEN "ready" ELSE "wait"

\* get_transaction_by_hash answers Ok(Some(tx)): process_transaction builds the
\* event, sends the summary to the UI and calls sender.send(event).await
FetchFound(b) ==
    /\ fetching[b] > 0
    /\ fetching' = [fetching EXCEPT ![b] = @ - 1]
    /\ CASE SendOutcome = "closed" ->
              \* Err(SendError): warn!, the task ends
              /\ permits' = DropPermit(b)
              /\ UNCHANGED <<sending, tx_queued>>
         [] SendOutcome = "ready" ->
              /\ tx_queued' = tx_queued + 1
              /\ permits' = DropPermit(b)
              /\ UNCHANGED sending
         [] SendOutcome = "wait" ->
              /\ sending' = [sending EXCEPT ![b] = @ + 1]
              /\ UNCHANGED <<permits, tx_queued>>
    /\ UNCHANGED <<app, flow, main, call, listener_vars, proc_pc, det_vars>>

\* a suspended send is woken by the receiver's drop and answers Err(SendError)
SendFailsClosed(b) ==
    /\ sending[b] > 0
    /\ proc_pc = "failed"
    /\ sending' = [sending EXCEPT ![b] = @ - 1]
    /\ permits' = DropPermit(b)
    /\ UNCHANGED <<app, flow, main, call, listener_vars, fetching, chan_vars, det_vars>>

-----------------------------------------------------------------------------
(* spawn_processor, as far as the transfer channel sees it *)

\* the ONNX session is loaded and the provider connected: the recv loop starts
ProcessorStarts ==
    /\ proc_pc = "init"
    /\ proc_pc' = "recv"
    /\ UNCHANGED <<app, flow, main, call, listener_vars, task_vars, tx_queued, det_vars>>

\* commit_from_file or on_ws fails: spawn_processor returns Err and drops rx,
\* which closes the channel and discards what it holds
ProcessorFailsToStart ==
    /\ proc_pc = "init"
    /\ proc_pc' = "failed"
    /\ tx_queued' = 0
    /\ UNCHANGED <<app, flow, main, call, listener_vars, task_vars, det_vars>>

\* rx.recv() takes the oldest event.  The freed slot goes to a suspended
\* sender if there is one (tokio hands released capacity to the waiters
\* first): its event is queued, send returns Ok and its task ends.
TakeFromChannel ==
    /\ proc_pc = "recv"
    /\ tx_queued > 0
    /\ IF \E b \in Buckets : sending[b] > 0
         THEN \E b \in Buckets :
                /\ sending[b] > 0
                /\ sending' = [sending EXCEPT ![b] = @ - 1]
                /\ permits' = DropPermit(b)
                /\ UNCHANGED tx_queued
         ELSE /\ tx_queued' = tx_queued - 1
              /\ UNCHANGED <<permits, sending>>
    /\ UNCHANGED <<app, flow, main, call, listener_vars, fetching, proc_pc>>

\* `while let Some(tx) = rx.recv().await`, seen from the admission stage: the
\* detection task the loop spawns for the event is followed in SpecProcessor
RecvEvent ==
    /\ TakeFromChannel
    /\ UNCHANGED det_vars

-----------------------------------------------------------------------------
(* spawn_processor and the processor's process_transaction *)

\* the detection task as tokio::spawn creates it: process_transaction is
\* about to take the statistics lock.  ops: the calls made for the event so
\* far; counted: the statistics this task has added to; ui: the messages it
\* has sent on the reporting channel, in order; exits: the ezkl commands
\* run_ezkl_pipeline has started for it, in order, each with how it ended.
NewTask(e) ==
    [pc |-> "scan_lock", ev |-> e, read |-> -1, conf |-> -1, precheck |-> "none",
     ops |-> {}, counted |-> {}, ui |-> <<>>, exits |-> <<>>, result |-> "running"]

\* `while let Some(tx) = rx.recv().await { tokio::spawn(process_transaction(..)) }`
RecvAndSpawn ==
    /\ Len(det) < MaxEvents
    /\ TakeFromChannel
    /\ \E e \in Events : det' = Append(det, NewTask(e))
    /\ UNCHANGED <<session_lock, stats_lock, stats, tx_counter, predators>>

Tasks == 1..Len(det)

\* task i moves on with the fields of `upd` replaced
Step(i, upd) ==
    det' = [det EXCEPT ![i] = [f \in DOMAIN @ |-> IF f \in DOMAIN upd THEN upd[f] ELSE @[f]]]

\* process_transaction returns r
Done(r) == [pc |-> "done", result |-> r]

\* a guard that is still held when the call after the scanned block is made
GuardDropped_HeldIntoCall(next_pc) == IF next_pc = "estimate" THEN stats_lock ELSE 0

\* a guard that is still held when the proof pipeline is started
GuardDropped_HeldIntoPipeline(next_pc) == IF next_pc = "witness" THEN stats_lock ELSE 0

\* stats_guard goes out of scope at the end of its block, before the task
\* goes on to next_pc: the lock is free
GuardDropped(next_pc) == 0

\* a statistics lock that excludes nobody
StatsLockFree_NoMutex == TRUE

\* stats.lock().await is granted
StatsLockFree == stats_lock = 0

\* "Update Stats: Scanned": the lock is granted and `+= 1` loads the counter
ScanLock(i) ==
    /\ det[i].pc = "scan_lock"
    /\ StatsLockFree
    /\ stats_lock' = i
    /\ Step(i, [pc |-> "scan", read |-> stats.total_scanned])
    /\ UNCHANGED <<app, flow, main, call, listener_vars, task_vars, chan_vars, session_lock, stats,
                   tx_counter, predators>>

\* "Update Stats: Scanned": stats_guard.total_scanned += 1
Scanned(st) == [st EXCEPT !.total_scanned = @ + 1]

\* `+= 1` stores the loaded value plus one, the guard is dropped;
\* ProcessingUpdate(NormalizingData), TX_COUNTER.fetch_add(1), and
\* estimate_gas is called
Scan(i) ==
    /\ det[i].pc = "scan"
    /\ stats' = Scanned([stats EXCEPT !.total_scanned = det[i].read])
    /\ stats_lock' = GuardDropped("estimate")
    /\ tx_counter' = tx_counter + 1
    /\ Step(i, [pc |-> "estimate", read |-> -1,
                counted |-> det[i].counted \cup {"scanned"},
                ui |-> Append(det[i].ui, "NormalizingData"),
                ops |-> det[i].ops \cup {"estimate_gas"}])
    /\ UNCHANGED <<app, flow, main, call, listener_vars, task_vars, chan_vars, session_lock, predators>>

\* estimate_gas answers (Ok, or Err and the 70 % fallback); the features are
\* built and normalized; session.lock().await is reached
EstimateGas(i) ==
    /\ det[i].pc = "estimate"
    /\ Step(i, [pc |-> "session_lock"])
    /\ UNCHANGED <<app, flow, main, call, listener_vars, task_vars, chan_vars, session_lock, stats_lock,
                   stats, tx_counter, predators>>

\* a scoring session shared without the mutex
SessionLockFree_NoMutex == TRUE

\* session.lock().await is granted
SessionLockFree == session_lock = 0

\* "Lock session for inference"
SessionLock(i) ==
    /\ det[i].pc = "session_lock"
    /\ SessionLockFree
    /\ session_lock' = i
    /\ Step(i, [pc |-> "infer"])
    /\ UNCHANGED <<app, flow, main, call, listener_vars, task_vars, chan_vars, stats_lock, stats,
                   tx_counter, predators>>

\* a threshold that is never applied
IsSafe_Never(probability) == FALSE

\* the comparison with the boundary on the safe side
IsSafe_Inclusive(probability) == probability <= CONFIDENCE_THRESHOLD

\* `if probability < confidence_threshold { ...; return Ok(()) }`
IsSafe(probability) == probability < CONFIDENCE_THRESHOLD

\* session_guard.run(inputs) answers and a confidence c is selected; the guard
\* is dropped, ConfidenceUpdate sent and the threshold applied: the task
\* returns, or calls client.is_predator
Infer(i, c) ==
    /\ det[i].pc = "infer"
    /\ session_lock' = 0
    /\ IF IsSafe(c)
         THEN Step(i, [conf |-> c, ui |-> Append(det[i].ui, "ConfidenceUpdate")]
                      @@ Done("Ok"))
         ELSE Step(i, [pc |-> "precheck", conf |-> c,
                       ui |-> Append(det[i].ui, "ConfidenceUpdate"),
                       ops |-> det[i].ops \cup {"is_predator"}])
    /\ UNCHANGED <<app, flow, main, call, listener_vars, task_vars, chan_vars, stats_lock, stats,
                   tx_counter, predators>>

\* an inference error that returns with the session still locked
InferFails_KeepsLock(i) ==
    /\ det[i].pc = "infer"
    /\ Step(i, Done("Err"))
    /\ UNCHANGED <<app, flow, main, call, listener_vars, task_vars, chan_vars, session_lock,
                   stats_lock, stats, tx_counter, predators>>

\* Value::from_array(..)? or session_guard.run(inputs)? fails: the guard is
\* dropped and process_transaction returns the error
InferFails(i) ==
    /\ det[i].pc = "infer"
    /\ session_lock' = 0
    /\ Step(i, Done("Err"))
    /\ UNCHANGED <<app, flow, main, call, listener_vars, task_vars, chan_vars, stats_lock, stats,
                   tx_counter, predators>>

\* a hook that also answers 'true' while a detection of the address is on
\* its way to being submitted
IsPredatorAnswers_SeesPending(a) ==
    {"false", "err"}
      \cup (IF a \in predators
                \/ \E k \in 1..Len(det) :
                     det[k].ev.from = a /\ det[k].precheck = "false" /\ det[k].pc # "done"
             THEN {"true"} ELSE {})

\* what isPredator(a).call() can answer: the mark, a stale "false" from a
\* node that has not indexed it yet, or an error
IsPredatorAnswers(a) ==
    {"false", "err"} \cup (IF a \in predators THEN {"true"} ELSE {})

\* a pre-check whose answer is ignored
PrecheckVerdict_Ignored(answer) == "proceed"

\* a pre-check whose error ends the event like an 'already flagged' answer
PrecheckVerdict_ErrSkips(answer) ==
    IF answer \in {"true", "err"} THEN "skip" ELSE "proceed"

\* the match on client.is_predator(..): Ok(true) returns, Err and Ok(false) go on
PrecheckVerdict(answer) == IF answer = "true" THEN "skip" ELSE "proceed"

\* "0. PRE-CHECK ON-CHAIN STATUS": is_predator answers
Precheck(i, answer) ==
    /\ det[i].pc = "precheck"
    /\ answer \in IsPredatorAnswers(det[i].ev.from)
    /\ IF PrecheckVerdict(answer) = "skip"
         THEN Step(i, [precheck |-> answer, ui |-> Append(det[i].ui, "Log:Skipping")]
                      @@ Done("Ok"))
         ELSE Step(i, [pc |-> "detect_lock", precheck |-> answer])
    /\ UNCHANGED <<app, flow, main, call, listener_vars, task_vars, chan_vars, session_lock, stats_lock,
                   stats, tx_counter, predators>>

\* "Update Stats: Detection & Economic Impact": the lock is granted
DetectLock(i) ==
    /\ det[i].pc = "detect_lock"
    /\ StatsLockFree
    /\ stats_lock' = i
    /\ Step(i, [pc |-> "detect"])
    /\ UNCHANGED <<app, flow, main, call, listener_vars, task_vars, chan_vars, session_lock, stats,
                   tx_counter, predators>>

\* a history that is never trimmed
PushHistory_NoCap(h, v) == Append(h, v)

\* history_saved.push(v); if len > 100 { remove(0) }
PushHistory(h, v) ==
    LET pushed == Append(h, v)
    IN  IF Len(pushed) > HISTORY_CAP THEN Tail(pushed) ELSE pushed

\* a detection block that writes back a freshly built record
Detected_FromDefault(st, e) ==
    [NoStats EXCEPT
       !.total_detected = st.total_detected + 1,
       !.total_trapped = st.total_trapped + 1,
       !.eth_saved = st.eth_saved + e.value,
       !.gas_saved = st.gas_saved + (e.gas_limit * e.gas_price) \div 1000000000,
       !.efficiency_boost = st.efficiency_boost,
       !.history_saved = PushHistory(st.history_saved, (st.eth_saved + e.value) \div 100)]

\* the statistics block of a detection, for event e
Detected(st, e) ==
    LET trapped == st.total_trapped + 1
        saved   == st.eth_saved + e.value
    IN  [st EXCEPT
           !.total_detected = @ + 1,
           !.total_trapped = trapped,
           !.eth_saved = saved,
           !.gas_saved = @ + (e.gas_limit * e.gas_price) \div 1000000000,
           !.efficiency_boost =
               IF st.total_scanned > 0 THEN (trapped * 100) \div st.total_scanned ELSE @,
           !.history_saved = PushHistory(@, saved \div 100)]

\* the two stage updates sent the other way round
StagesBeforePipeline_Swapped == <<"CreatingZKProof", "GeneratingWitness">>

\* "3. GENERATE WITNESS (EZKL)" and "4. GENERATE ZK PROOF": the two stage
\* updates sent back to back before run_ezkl_pipeline is called
StagesBeforePipeline == <<"GeneratingWitness", "CreatingZKProof">>

\* the counters are updated and StatsUpdate sent under the lock; then
\* GeneratingWitness and CreatingZKProof are reported and run_ezkl_pipeline is
\* handed to spawn_blocking
Detect(i) ==
    /\ det[i].pc = "detect"
    /\ stats' = Detected(stats, det[i].ev)
    /\ stats_lock' = GuardDropped("witness")
    /\ Step(i, [pc |-> "witness",
                counted |-> det[i].counted \cup {"detected", "trapped", "eth_saved", "gas_saved"},
                ui |-> det[i].ui \o <<"StatsUpdate">> \o StagesBeforePipeline,
                ops |-> det[i].ops \cup {"run_ezkl_pipeline"}])
    /\ UNCHANGED <<app, flow, main, call, listener_vars, task_vars, chan_vars, session_lock, tx_counter,
                   predators>>

PipelineSteps == <<"witness", "prove", "encode">>

\* witness_file, proof_file and calldata_file of run_ezkl_pipeline(tx_hash)
ArtifactPaths(tx_hash) ==
    { <<"assets/prove/witness_", tx_hash, ".json">>,
      <<"assets/prove/vanguard_", tx_hash, ".proof">>,
      <<"assets/prove/calldata_", tx_hash, ".bytes">> }

\* run_ezkl_pipeline is in progress for task i
InPipeline(i) == det[i].pc \in {"witness", "prove", "encode"}

\* a pipeline that encodes right after the witness
AfterStep_SkipsProve(pc) ==
    CASE pc = "witness" -> "encode"
      [] pc = "prove" -> "encode"
      [] pc = "encode" -> "proof_lock"

\* the pc after pipeline step pc has exited successfully
AfterStep(pc) ==
    CASE pc = "witness" -> "prove"
      [] pc = "prove" -> "encode"
      [] pc = "encode" -> "proof_lock"

\* run_ezkl_pipeline runs one ezkl command: it exits successfully ("ok"),
\* exits unsuccessfully ("exit_failure": Ok(false), the Error stage is
\* reported) or cannot be executed ("exec_error": Err, which `??` returns)
PipelineStep(i, outcome) ==
    /\ det[i].pc \in {"witness", "prove", "encode"}
    /\ LET ran == det[i].ops \cup {det[i].pc}
           ended == Append(det[i].exits, [step |-> det[i].pc, exit |-> outcome])
       IN  CASE outcome = "ok" ->
                  Step(i, [pc |-> AfterStep(det[i].pc), ops |-> ran, exits |-> ended])
             [] outcome = "exit_failure" ->
                  Step(i, [ops |-> ran, exits |-> ended,
                           ui |-> Append(det[i].ui, "Error")] @@ Done("Ok"))
             [] outcome = "exec_error" ->
                  Step(i, [ops |-> ran, exits |-> ended] @@ Done("Err"))
    /\ UNCHANGED <<app, flow, main, call, listener_vars, task_vars, chan_vars, session_lock, stats_lock,
                   stats, tx_counter, predators>>

\* "Update Stats: ZK Proofs": the lock is granted
ProofLock(i) ==
    /\ det[i].pc = "proof_lock"
    /\ StatsLockFree
    /\ stats_lock' = i
    /\ Step(i, [pc |-> "proof_count"])
    /\ UNCHANGED <<app, flow, main, call, listener_vars, task_vars, chan_vars, session_lock, stats,
                   tx_counter, predators>>

\* a proof block that counts the trap only once the proof exists
ProofCounted_CountsTrap(st) ==
    [st EXCEPT !.zk_proofs_generated = @ + 1, !.total_trapped = @ + 1]

\* "Update Stats: ZK Proofs": stats_guard.zk_proofs_generated += 1
ProofCounted(st) == [st EXCEPT !.zk_proofs_generated = @ + 1]

\* zk_proofs_generated += 1 and StatsUpdate under the lock, then ProofComplete
ProofCount(i) ==
    /\ det[i].pc = "proof_count"
    /\ stats' = ProofCounted(stats)
    /\ stats_lock' = GuardDropped("extract")
    /\ Step(i, [pc |-> "extract",
                counted |-> det[i].counted \cup {"zk_proofs_generated"},
                ui |-> det[i].ui \o <<"StatsUpdate", "ProofComplete">>])
    /\ UNCHANGED <<app, flow, main, call, listener_vars, task_vars, chan_vars, session_lock, tx_counter,
                   predators>>

\* extract_proof_from_calldata and extract_public_output: both Ok, and
\* submit_detection is called, or one fails and only error! is logged
Extract(i, ok) ==
    /\ det[i].pc = "extract"
    /\ LET ran == det[i].ops \cup {"extract_proof_from_calldata", "extract_public_output"}
       IN  IF ok
             THEN Step(i, [pc |-> "submit", ops |-> ran \cup {"submit_detection"}])
             ELSE Step(i, [ops |-> ran] @@ Done("Ok"))
    /\ UNCHANGED <<app, flow, main, call, listener_vars, task_vars, chan_vars, session_lock, stats_lock,
                   stats, tx_counter, predators>>

\* submit_detection answers: Ok(hash) once the receipt is in, the mark is set
\* on chain and is_predator is asked again; or Err and "Trap Failed" is logged
Submit(i, ok) ==
    /\ det[i].pc = "submit"
    /\ IF ok
         THEN /\ predators' = predators \cup {det[i].ev.from}
              /\ Step(i, [pc |-> "verify",
                          ui |-> Append(det[i].ui, "Log:Trapped"),
                          ops |-> det[i].ops \cup {"is_predator_again"}])
         ELSE /\ UNCHANGED predators
              /\ Step(i, [ui |-> Append(det[i].ui, "Log:Trap Failed")] @@ Done("Ok"))
    /\ UNCHANGED <<app, flow, main, call, listener_vars, task_vars, chan_vars, session_lock, stats_lock,
                   stats, tx_counter>>

\* a re-query whose 'false' is reported as a failed trap
VerifyLog_FalseIsFailure(ui, answer) ==
    CASE answer = "true" -> Append(ui, "Log:SUCCESS")
      [] answer = "false" -> Append(ui, "Log:Trap Failed")
      [] answer = "err" -> ui

\* what the match on the second is_predator sends to the UI
VerifyLog(ui, answer) ==
    CASE answer = "true" -> Append(ui, "Log:SUCCESS")
      [] answer = "false" -> Append(ui, "Log:WARNING")
      [] answer = "err" -> ui

\* "5. POST-VERIFICATION": the second is_predator answers
Verify(i, answer) ==
    /\ det[i].pc = "verify"
    /\ answer \in IsPredatorAnswers(det[i].ev.from)
    /\ Step(i, [ui |-> VerifyLog(det[i].ui, answer)] @@ Done("Ok"))
    /\ UNCHANGED <<app, flow, main, call, listener_vars, task_vars, chan_vars, session_lock, stats_lock,
                   stats, tx_counter, predators>>

Answers == {"true", "false", "err"}

Outcomes == {"ok", "exit_failure", "exec_error"}

Detection ==
    \/ \E i \in Tasks : ScanLock(i)
    \/ \E i \in Tasks : Scan(i)
    \/ \E i \in Tasks : EstimateGas(i)
    \/ \E i \in Tasks : SessionLock(i)
    \/ \E i \in Tasks : InferFails(i)
    \/ \E i \in Tasks, c \in Confidences : Infer(i, c)
    \/ \E i \in Tasks, a \in Answers : Precheck(i, a)
    \/ \E i \in Tasks : DetectLock(i)
    \/ \E i \in Tasks : Detect(i)
    \/ \E i \in Tasks, o \in Outcomes : PipelineStep(i, o)
    \/ \E i \in Tasks : ProofLock(i)
    \/ \E i \in Tasks : ProofCount(i)
    \/ \E i \in Tasks, ok \in BOOLEAN : Extract(i, ok)
    \/ \E i \in Tasks, ok \in BOOLEAN : Submit(i, ok)
    \/ \E i \in Tasks, a \in Answers : Verify(i, a)

\* The detection stage on its own: the recv loop is running, MaxEvents events
\* wait in the transfer channel and the listener's session is idle in select.
InitProcessor ==
    /\ sup_pc = "select"
    /\ session_result = "none"
    /\ sleep_secs = 0
    /\ sessions = 1
    /\ block_open = TRUE /\ tx_open = TRUE
    /\ last_tx = "spawned"
    /\ permits = [b \in Buckets |-> IF b = "cur" THEN PERMITS ELSE 0]
    /\ fetching = NoTasks /\ sending = NoTasks
    /\ tx_queued = MaxEvents
    /\ proc_pc = "recv"
    /\ det = <<>>
    /\ session_lock = 0 /\ stats_lock = 0
    /\ stats = NoStats
    /\ tx_counter = 0
    /\ predators \in SUBSET Addresses
    /\ call = NoCall
    /\ main = Serving
    /\ flow = NoFlow
    /\ app = NewApp

NextProcessor == RecvAndSpawn \/ Detection

SpecProcessor == InitProcessor /\ [][NextProcessor]_vars

\* the steps of task i that do not wait for an ezkl command to exit
StepsButPipeline(i) ==
    \/ ScanLock(i) \/ Scan(i) \/ EstimateGas(i) \/ SessionLock(i)
    \/ InferFails(i) \/ (\E c \in Confidences : Infer(i, c))
    \/ (\E a \in Answers : Precheck(i, a))
    \/ DetectLock(i) \/ Detect(i) \/ ProofLock(i) \/ ProofCount(i)
    \/ (\E ok \in BOOLEAN : Extract(i, ok))
    \/ (\E ok \in BOOLEAN : Submit(i, ok))
    \/ (\E a \in Answers : Verify(i, a))

\* the runtime polls every task that can move, the locks are granted to a
\* waiter once free, and the node and the scoring session answer; whether an
\* ezkl command ever exits is left open
SpecProcessorLive ==
    /\ InitProcessor /\ [][NextProcessor]_vars
    /\ WF_vars(RecvAndSpawn)
    /\ \A i \in 1..MaxEvents : WF_vars(i \in Tasks /\ StepsButPipeline(i))

-----------------------------------------------------------------------------
(* The statistics over a long run.  Every access to SentinelStats is one of *)
(* three critical sections of process_transaction, each run under the       *)
(* Mutex; a task runs its detection block after its scan block and its      *)
(* proof block after its detection block, and any number of tasks overlap.  *)

\* the scan block of one more event
StatsScan ==
    /\ stats.total_scanned < MaxScans
    /\ stats' = Scanned(stats)
    /\ UNCHANGED <<app, flow, main, call, listener_vars, task_vars, chan_vars, det, session_lock,
                   stats_lock, tx_counter, predators>>

\* the detection block of an event that was scanned and scored as detected
StatsDetect ==
    /\ stats.total_detected < stats.total_scanned
    /\ \E e \in Events : stats' = Detected(stats, e)
    /\ UNCHANGED <<app, flow, main, call, listener_vars, task_vars, chan_vars, det, session_lock,
                   stats_lock, tx_counter, predators>>

\* the proof block of a detected event whose pipeline succeeded
StatsProof ==
    /\ stats.zk_proofs_generated < stats.total_detected
    /\ stats' = ProofCounted(stats)
    /\ UNCHANGED <<app, flow, main, call, listener_vars, task_vars, chan_vars, det, session_lock,
                   stats_lock, tx_counter, predators>>

InitStats ==
    /\ sup_pc = "select"
    /\ session_result = "none"
    /\ sleep_secs = 0
    /\ sessions = 1
    /\ block_open = TRUE /\ tx_open = TRUE
    /\ last_tx = "none"
    /\ permits = [b \in Buckets |-> IF b = "cur" THEN PERMITS ELSE 0]
    /\ fetching = NoTasks /\ sending = NoTasks
    /\ tx_queued = 0
    /\ proc_pc = "recv"
    /\ det = <<>>
    /\ session_lock = 0 /\ stats_lock = 0
    /\ stats = NoStats
    /\ tx_counter = 0
    /\ predators = {}
    /\ main = Serving
    /\ flow = NoFlow
    /\ app = NewApp
    /\ call = NoCall

NextStats == StatsScan \/ StatsDetect \/ StatsProof

SpecStats == InitStats /\ [][NextStats]_vars

-----------------------------------------------------------------------------
(* Pure functions of processor.rs, each followed on its own: the argument  *)
(* is drawn in the initial state and one step applies the function.        *)

\* everything but `call` at rest: the recv loop runs and no event is in work
Quiet ==
    /\ sup_pc = "select"
    /\ session_result = "none"
    /\ sleep_secs = 0
    /\ sessions = 1
    /\ block_open = TRUE /\ tx_open = TRUE
    /\ last_tx = "none"
    /\ permits = [b \in Buckets |-> IF b = "cur" THEN PERMITS ELSE 0]
    /\ fetching = NoTasks /\ sending = NoTasks
    /\ tx_queued = 0
    /\ proc_pc = "recv"
    /\ det = <<>>
    /\ session_lock = 0 /\ stats_lock = 0
    /\ stats = NoStats
    /\ tx_counter = 0
    /\ predators = {}
    /\ main = Serving
    /\ flow = NoFlow
    /\ app = NewApp

\* the step that stores the result of the call
Return(ret) ==
    /\ call' = [call EXCEPT !.done = TRUE, !.ret = ret]
    /\ UNCHANGED <<app, flow, main, listener_vars, task_vars, chan_vars, det_vars>>

\* sequences over S of length lo..hi
SeqsOf(S, lo, hi) == UNION {[1..n -> S] : n \in lo..hi}

\* a value of the function, or the panic of an index out of bounds
Value(v) == [panic |-> FALSE, val |-> v]
Panic == [panic |-> TRUE, val |-> 0]

-----------------------------------------------------------------------------
(* process_transaction: the selection of the confidence among the outputs  *)

\* elements an output tensor can hold, at most
MaxElems == 2

\* the outputs of session_guard.run: a f32 tensor (elements in hundredths),
\* an i64 tensor, or a value that is no tensor of either type ("other": a
\* sequence of maps, a string tensor)
Tensors ==
    {[kind |-> "f32", data |-> d] : d \in SeqsOf({20, 80}, 0, MaxElems)}
      \cup {[kind |-> "i64", data |-> d] : d \in SeqsOf({0, 1}, 0, MaxElems)}
      \cup {[kind |-> "other", data |-> <<>>]}

ModelOutputs == SeqsOf(Tensors, 1, 2)

\* `t0.1[0]`: the slice index panics on an empty slice
ElementAt(data, k) == IF k <= Len(data) THEN Value(data[k]) ELSE Panic

\* `x as f32` of an i64, in hundredths
I64AsF32(r) == IF r.panic THEN r ELSE Value(r.val * 100)

\* the fallback on outputs[0]: try_extract_tensor::<f32>, else ::<i64>, else 0.0
FirstOutput(t0) ==
    IF t0.kind = "f32" THEN ElementAt(t0.data, 1)
    ELSE IF t0.kind = "i64" THEN I64AsF32(ElementAt(t0.data, 1))
    ELSE Value(0)

\* `let val = if outputs.len() >= 2 { ... } else { ... }`
SelectConfidence(outputs) ==
    IF Len(outputs) >= 2
      THEN IF outputs[2].kind = "f32"
             THEN IF Len(outputs[2].data) >= 2
                    THEN ElementAt(outputs[2].data, 2)
                    ELSE FirstOutput(outputs[1])
             ELSE FirstOutput(outputs[1])
      ELSE FirstOutput(outputs[1])

InitSelect ==
    /\ Quiet
    /\ \E o \in ModelOutputs :
         call = [fn |-> "select_confidence", arg |-> o, done |-> FALSE, ret |-> Value(0)]

Select ==
    /\ call.fn = "select_confidence" /\ ~call.done
    /\ Return(SelectConfidence(call.arg))

SpecSelect == InitSelect /\ [][Select]_vars

-----------------------------------------------------------------------------
(* extract_proof_from_calldata.  Bytes are 0..255 and the buffer is a       *)
(* sequence whose element k+1 is the byte at index k.  usize is 64 bits    *)
(* wide: the sums below stay under 2^33 + 36 and cannot wrap.              *)

\* `if data.len() < 100`
CALLDATA_MIN == 100

\* bytes a calldata buffer can hold beyond CALLDATA_MIN
MaxExtra == 4

\* byte k (0 = most significant) of the 4-byte big-endian form of v
BEByte(v, k) ==
    CASE k = 0 -> (v \div 16777216) % 256
      [] k = 1 -> (v \div 65536) % 256
      [] k = 2 -> (v \div 256) % 256
      [] k = 3 -> v % 256

Selectors == {<<222, 173, 190, 239>>, <<1, 2, 3, 4>>}
ProofOffsets == {0, 32, 64, 65, 68, 69, 72, 16777280}
ProofLengths == {0, 3, 4, 5, 16777219}
PayloadBytes == <<170, 187, 204>>

\* the file written by `ezkl encode-evm-calldata`, or any other content of
\* that path: n bytes with selector sel, the offset o in bytes 32..35, the
\* length l in the last 4 bytes of the word at 4 + o, and payload after it
Calldata(n, sel, o, l) ==
    [i \in 1..n |->
        LET j == i - 1
        IN  IF j < 4 THEN sel[j + 1]
            ELSE IF j >= 32 /\ j < 36 THEN BEByte(o, j - 32)
            ELSE IF j >= 4 + o + 28 /\ j < 4 + o + 32 THEN BEByte(l, j - (4 + o + 28))
            ELSE IF j >= 4 + o + 32 THEN PayloadBytes[((j - (4 + o + 32)) % 3) + 1]
            ELSE 0]

CalldataBuffers ==
    {Calldata(n, sel, o, l) :
        n \in (CALLDATA_MIN - 1)..(CALLDATA_MIN + MaxExtra),
        sel \in Selectors, o \in ProofOffsets, l \in ProofLengths}

\* Ok(bytes), Err(message), or the panic of a slice out of range
Ok(bytes) == [kind |-> "ok", bytes |-> bytes, msg |-> ""]
Err(msg) == [kind |-> "err", bytes |-> <<>>, msg |-> msg]
SlicePanic == [kind |-> "panic", bytes |-> <<>>, msg |-> "range out of bounds"]

\* `data[a..b]` is in range
InRange(data, a, b) == a <= b /\ b <= Len(data)

\* u32::from_be_bytes(data[a..a + 4])
U32FromBe(data, a) ==
    data[a + 1] * 16777216 + data[a + 2] * 65536 + data[a + 3] * 256 + data[a + 4]

\* `if data.len() < 100`
TooShort(data) == Len(data) < CALLDATA_MIN

\* `if len_offset + 32 > data.len()`
BadOffset(len_offset, data) == len_offset + 32 > Len(data)

\* a length check that forgets where the payload starts
BadLength_IgnoresStart(proof_start, proof_len, data) == proof_len > Len(data)

\* `if proof_start + proof_len > data.len()`
BadLength(proof_start, proof_len, data) == proof_start + proof_len > Len(data)

\* a payload taken from the last 4 bytes of the length word on
ProofStart_InsideLengthWord(len_offset) == len_offset + 28

\* `let proof_start = len_offset + 32;`
ProofStart(len_offset) == len_offset + 32

\* the function on the bytes that std::fs::read returned
ExtractProofFromCalldata(data) ==
    IF TooShort(data) THEN Err("Calldata too short")
    ELSE IF ~InRange(data, 32, 36) THEN SlicePanic
    ELSE
      LET proof_offset == U32FromBe(data, 32)
          len_offset == 4 + proof_offset
      IN  IF BadOffset(len_offset, data) THEN Err("Invalid proof offset in calldata")
          ELSE IF ~InRange(data, len_offset + 28, len_offset + 32) THEN SlicePanic
          ELSE
            LET proof_len == U32FromBe(data, len_offset + 28)
                proof_start == ProofStart(len_offset)
            IN  IF BadLength(proof_start, proof_len, data)
                  THEN Err("Invalid proof length in calldata")
                ELSE IF ~InRange(data, proof_start, proof_start + proof_len) THEN SlicePanic
                ELSE Ok(SubSeq(data, proof_start + 1, proof_start + proof_len))

InitExtractProof ==
    /\ Quiet
    /\ \E d \in CalldataBuffers :
         call = [fn |-> "extract_proof_from_calldata", arg |-> d, done |-> FALSE,
                 ret |-> Err("")]

ExtractProof ==
    /\ call.fn = "extract_proof_from_calldata" /\ ~call.done
    /\ Return(ExtractProofFromCalldata(call.arg))

SpecExtractProof == InitExtractProof /\ [][ExtractProof]_vars

-----------------------------------------------------------------------------
(* extract_public_output.  A JSON string is the sequence of its characters. *)
(* A U256 of up to seven digits is kept as the number itself, a longer one  *)
(* as its significant digits and their base, so that the 256-bit limit of   *)
(* the parsers is kept without computing with numbers that large.           *)

\* the value of character c as a digit, -1 when it is none
DigitValue(c) ==
    CASE c = "0" -> 0 [] c = "1" -> 1 [] c = "2" -> 2 [] c = "3" -> 3
      [] c = "4" -> 4 [] c = "5" -> 5 [] c = "6" -> 6 [] c = "7" -> 7
      [] c = "8" -> 8 [] c = "9" -> 9 [] c = "a" -> 10 [] c = "b" -> 11
      [] c = "c" -> 12 [] c = "d" -> 13 [] c = "e" -> 14 [] c = "f" -> 15
      [] OTHER -> -1

\* every character of s is a digit of the base
AllDigits(s, base) ==
    \A k \in 1..Len(s) : DigitValue(s[k]) >= 0 /\ DigitValue(s[k]) < base

RECURSIVE DigitsValue(_, _)
\* the number written by the digits s in the base
DigitsValue(s, base) ==
    IF s = <<>> THEN 0
    ELSE DigitsValue(SubSeq(s, 1, Len(s) - 1), base) * base + DigitValue(s[Len(s)])

RECURSIVE Significant(_)
\* s without its leading zeros
Significant(s) ==
    IF s # <<>> /\ Head(s) = "0" THEN Significant(Tail(s)) ELSE s

\* the decimal digits of 2^256 - 1
U256_MAX_DECIMAL ==
    <<"1", "1", "5", "7", "9", "2", "0", "8", "9", "2", "3", "7", "3",
      "1", "6", "1", "9", "5", "4", "2", "3", "5", "7", "0", "9", "8",
      "5", "0", "0", "8", "6", "8", "7", "9", "0", "7", "8", "5", "3",
      "2", "6", "9", "9", "8", "4", "6", "6", "5", "6", "4", "0", "5",
      "6", "4", "0", "3", "9", "4", "5", "7", "5", "8", "4", "0", "0",
      "7", "9", "1", "3", "1", "2", "9", "6", "3", "9", "9", "3", "5">>

\* the digit strings a and b have the same length and a writes the larger number
DigitsGreater(a, b) ==
    \E k \in 1..Len(a) :
        /\ DigitValue(a[k]) > DigitValue(b[k])
        /\ \A j \in 1..(k - 1) : a[j] = b[j]

\* the number written by the digits s in the base does not fit 256 bits
Overflows(s, base) ==
    LET d == Significant(s)
    IN  CASE base = 16 -> Len(d) > 64
          [] base = 10 -> Len(d) > 78 \/ (Len(d) = 78 /\ DigitsGreater(d, U256_MAX_DECIMAL))
          [] base = 8 -> Len(d) > 86 \/ (Len(d) = 86 /\ DigitValue(d[1]) > 1)
          [] base = 2 -> Len(d) > 256

\* the U256 written by the digits s in the base
NumberWritten(s, base) ==
    IF Len(Significant(s)) <= 7 THEN DigitsValue(Significant(s), base)
    ELSE [base |-> base, digits |-> Significant(s)]

\* U256::from_str_radix(s, base), for a string that is not empty
FromStrRadix(s, base) ==
    IF s # <<>> /\ AllDigits(s, base) /\ ~Overflows(s, base)
      THEN Ok(NumberWritten(s, base))
      ELSE Err("parse")

\* s.starts_with(prefix), for a prefix of two characters
StartsWith(s, prefix) == Len(s) >= 2 /\ SubSeq(s, 1, 2) = prefix

\* U256::from_str(s): base 16, 8 or 2 after the prefix 0x, 0o or 0b, else base 10
FromStr(s) ==
    IF StartsWith(s, <<"0", "x">>) THEN FromStrRadix(SubSeq(s, 3, Len(s)), 16)
    ELSE IF StartsWith(s, <<"0", "o">>) THEN FromStrRadix(SubSeq(s, 3, Len(s)), 8)
    ELSE IF StartsWith(s, <<"0", "b">>) THEN FromStrRadix(SubSeq(s, 3, Len(s)), 2)
    ELSE FromStrRadix(s, 10)

\* `a.or_else(|_| b)`
OrElse(a, b) == IF a.kind = "ok" THEN a ELSE b

\* a branch that tries base 10 first
ParseUnprefixed_DecimalFirst(s) == OrElse(FromStr(s), FromStrRadix(s, 16))

\* the branch of parse_val for a string without the 0x prefix
ParseUnprefixed(s) == OrElse(FromStrRadix(s, 16), FromStr(s))

\* the closure parse_val: a string, a number that fits u64, or anything else
ParseVal(val) ==
    IF val.t = "str"
      THEN IF StartsWith(val.s, <<"0", "x">>)
             THEN IF FromStr(val.s).kind = "ok" THEN FromStr(val.s)
                  ELSE Err("Failed to parse hex string")
             ELSE IF ParseUnprefixed(val.s).kind = "ok" THEN ParseUnprefixed(val.s)
                  ELSE Err("Failed to parse value string")
    ELSE IF val.t = "u64" THEN Ok(val.n)
    ELSE Err("Invalid value type")

RECURSIVE ParseAll(_, _)
\* `for val in inner_arr { public_inputs.push(parse_val(val)?); }`
ParseAll(vals, acc) ==
    IF acc.kind # "ok" \/ vals = <<>> THEN acc
    ELSE LET r == ParseVal(Head(vals))
         IN  IF r.kind = "ok" THEN ParseAll(Tail(vals), Ok(Append(acc.bytes, r.bytes)))
             ELSE r

RECURSIVE ExtractItems(_, _)
\* `for inner in arr { ... }`: an inner array is parsed element by element,
\* anything else is handed to parse_val itself
ExtractItems(items, acc) ==
    IF acc.kind # "ok" \/ items = <<>> THEN acc
    ELSE ExtractItems(Tail(items), ParseAll(Head(items).vals, acc))

\* an extract_from that reads the other of the two keys
ExtractFrom_OtherKey(key, source, acc) ==
    IF acc.kind # "ok" THEN acc
    ELSE IF source.kind # "object" THEN acc
    ELSE LET field == source[IF key = "inputs" THEN "outputs" ELSE "inputs"]
         IN  IF field.kind = "array" THEN ExtractItems(field.items, acc) ELSE acc

\* the closure extract_from(key, source): source.get(key) is None on a
\* missing key and on a source that is no object; a field that is no array
\* is skipped
ExtractFrom(key, source, acc) ==
    IF acc.kind # "ok" THEN acc
    ELSE IF source.kind # "object" THEN acc
    ELSE LET field == source[key]
         IN  IF field.kind = "array" THEN ExtractItems(field.items, acc) ELSE acc

\* an emptiness check that never fires
IsEmpty_Never(list) == FALSE

\* public_inputs.is_empty()
IsEmpty(list) == list = <<>>

\* the function on the parsed witness document
ExtractPublicOutput(json) ==
    LET source == IF json.pretty_elements.kind # "absent" THEN json.pretty_elements
                  ELSE json.root
        found == ExtractFrom("outputs", source, ExtractFrom("inputs", source, Ok(<<>>)))
    IN  IF found.kind # "ok" THEN found
        ELSE IF IsEmpty(found.bytes) THEN Err("No public inputs found in witness.json")
        ELSE found

\* items an `inputs` or `outputs` array can hold, at most
MaxItems == 2

\* JSON values: the string "0x2a", the number 7, and `true`
HexValue == [t |-> "str", s |-> <<"0", "x", "2", "a">>, n |-> 0]
U64Value == [t |-> "u64", s |-> <<>>, n |-> 7]
BoolValue == [t |-> "bool", s |-> <<>>, n |-> 0]
JsonValues == {HexValue, U64Value, BoolValue}

\* the elements of an `inputs` or `outputs` array: an inner array of values,
\* or a value standing for itself
JsonItems ==
    {[kind |-> "array", vals |-> <<>>], [kind |-> "array", vals |-> <<HexValue, U64Value>>]}
      \cup {[kind |-> "array", vals |-> <<v>>] : v \in JsonValues}
      \cup {[kind |-> "value", vals |-> <<v>>] : v \in JsonValues}

\* a key of an object: missing, holding something that is no array, or an array
JsonFields ==
    {[kind |-> "absent", items |-> <<>>], [kind |-> "scalar", items |-> <<>>]}
      \cup {[kind |-> "array", items |-> a] : a \in SeqsOf(JsonItems, 0, MaxItems)}

JsonObjects == [kind : {"object"}, inputs : JsonFields, outputs : JsonFields]

\* a value that is no object (null), and a key that is missing
JsonNull ==
    [kind |-> "null", inputs |-> [kind |-> "absent", items |-> <<>>],
     outputs |-> [kind |-> "absent", items |-> <<>>]]
JsonAbsent == [JsonNull EXCEPT !.kind = "absent"]

\* top-level inputs/outputs of a witness that also has pretty_elements
RootsBeside ==
    { [kind |-> "object", inputs |-> [kind |-> "absent", items |-> <<>>],
       outputs |-> [kind |-> "absent", items |-> <<>>]],
      [kind |-> "object",
       inputs |-> [kind |-> "array", items |-> <<[kind |-> "array", vals |-> <<U64Value>>]>>],
       outputs |-> [kind |-> "array", items |-> <<[kind |-> "value", vals |-> <<U64Value>>]>>]] }

\* the documents serde_json::from_str can return for witness_<hash>.json
WitnessDocuments ==
    [pretty_elements : {JsonAbsent}, root : JsonObjects \cup {JsonNull}]
      \cup [pretty_elements : JsonObjects \cup {JsonNull}, root : RootsBeside]

\* characters a short value string is made of
ParseChars == {"0", "1", "9", "a", "f", "x", "g"}

\* how long the short value strings get
MaxStrLen == 2

\* "1" followed by n zeros
OneAndZeros(n) == <<"1">> \o [k \in 1..n |-> "0"]

\* digit strings around the 256-bit limit: 64 and 65 digits (16^64 = 2^256),
\* 78 and 79 digits (10^77 < 2^256 < 10^78), and one digit past 2^256 - 1
LongStrings ==
    {OneAndZeros(63), OneAndZeros(64), OneAndZeros(77), OneAndZeros(78),
     [U256_MAX_DECIMAL EXCEPT ![78] = "6"]}

\* the string values parse_val is called with ("0x" alone is left out)
ParseStrings == (SeqsOf(ParseChars, 1, MaxStrLen) \ {<<"0", "x">>}) \cup LongStrings

\* the JSON values parse_val is called with
ParseValues ==
    {[t |-> "str", s |-> str, n |-> 0] : str \in ParseStrings} \cup {U64Value, BoolValue}

InitParseVal ==
    /\ Quiet
    /\ \E v \in ParseValues :
         call = [fn |-> "parse_val", arg |-> v, done |-> FALSE, ret |-> Err("")]

ParseValue ==
    /\ call.fn = "parse_val" /\ ~call.done
    /\ Return(ParseVal(call.arg))

SpecParseVal == InitParseVal /\ [][ParseValue]_vars

InitPublicOutput ==
    /\ Quiet
    /\ \E j \in WitnessDocuments :
         call = [fn |-> "extract_public_output", arg |-> j, done |-> FALSE, ret |-> Err("")]

ExtractOutput ==
    /\ call.fn = "extract_public_output" /\ ~call.done
    /\ Return(ExtractPublicOutput(call.arg))

SpecPublicOutput == InitPublicOutput /\ [][ExtractOutput]_vars

-----------------------------------------------------------------------------

Supervisor ==
    \/ SleepElapsed
    \/ ConnectOk \/ ConnectFails
    \/ SubscribeOk \/ SubscribeFails

Session ==
    \/ BlockStreamEnds \/ TxStreamEnds
    \/ SelectHeader \/ SelectTxHash \/ SelectBreak
    \/ HandleHeader \/ HandleTxHash

Enrichment ==
    \E b \in Buckets :
        \/ FetchNotFound(b) \/ FetchError(b) \/ FetchFound(b)
        \/ SendFailsClosed(b)

Channel == ProcessorStarts \/ ProcessorFailsToStart \/ RecvEvent

Next == Supervisor \/ Session \/ Enrichment \/ Channel

Spec == Init /\ [][Next]_vars

\* the supervisor's timer fires and its task is polled again
SpecLive == Init /\ [][Next]_vars /\ WF_vars(SleepElapsed)

-----------------------------------------------------------------------------
(* FeatureVector::to_array and normalize_features.  The f32 values are kept *)
(* in fixed point: gas_used in whole gas units, every other feature and its *)
(* constants in units of 1e-4, a normalized value in thousandths.           *)

\* MEANS, in the units of the feature at each position
MEANS == <<9687, 7566, 5726, 570147, 4808, 548847>>

\* SCALES, likewise
SCALES == <<72389, 71001, 1897, 871445, 115834, 852015>>

\* the FeatureVector values process_transaction can build
FeatureVectors ==
    [tx_index : {0, 1490000},
     gas_price_gwei : {10000, 25000},
     priority_fee_gwei : {0, 15000},
     gas_used : {14700, 21000},
     native_value : {20000, 30000},
     gas_usage_ratio : {7000, 9999}]

\* an array in the order the doc comment of FeatureVector gives (f0 .. f5)
ToArray_DocOrder(f) ==
    <<f.tx_index, f.gas_price_gwei, f.priority_fee_gwei, f.gas_used, f.native_value,
      f.gas_usage_ratio>>

\* FeatureVector::to_array
ToArray(f) ==
    <<f.gas_price_gwei, f.priority_fee_gwei, f.gas_usage_ratio, f.gas_used, f.native_value,
      f.tx_index>>

\* (a - mean) / scale, in thousandths
Scaled(a, mean, scale) == ((a - mean) * 1000) \div scale

\* normalize_features: the array and what the loop makes of it
NormalizeFeatures(f) ==
    LET arr == ToArray(f)
    IN  [arr |-> arr,
         normalized |-> [i \in 1..6 |-> IF SCALES[i] # 0
                                          THEN Scaled(arr[i], MEANS[i], SCALES[i])
                                          ELSE arr[i]]]

InitNormalize ==
    /\ Quiet
    /\ \E f \in FeatureVectors :
         call = [fn |-> "normalize_features", arg |-> f, done |-> FALSE,
                 ret |-> [arr |-> <<>>, normalized |-> <<>>]]

Normalize ==
    /\ call.fn = "normalize_features" /\ ~call.done
    /\ Return(NormalizeFeatures(call.arg))

SpecNormalize == InitNormalize /\ [][Normalize]_vars

-----------------------------------------------------------------------------
(* Events followed from indexer::process_transaction through the transfer   *)
(* channel to the confidence report of processor::process_transaction.      *)

\* how many events are followed
MaxFlow == 2

\* the hashes the followed events can have
FlowHashes == {"h1", "h2"}

\* an enrichment task that forwards the event before it sends the summary
EnrichmentSteps_ForwardFirst == <<"forward", "summary">>

\* indexer::process_transaction: ui_sender.send(NewTransaction(summary)),
\* then sender.send(event).await
EnrichmentSteps == <<"summary", "forward">>

\* a receive that leaves the event in the channel
Taken_KeepsHead(chan) == chan

\* rx.recv() removes the oldest event
Taken(chan) == Tail(chan)

FlowEvents == 1..Len(flow.ev)

\* event e moves on with the fields of `upd` replaced
FlowStep(e, upd) ==
    [flow.ev EXCEPT ![e] = [f \in DOMAIN @ |-> IF f \in DOMAIN upd THEN upd[f] ELSE @[f]]]

\* the enrichment task of event e is at its step `step`
AtEnrichmentStep(e, step) ==
    /\ flow.ev[e].enriched < Len(EnrichmentSteps)
    /\ EnrichmentSteps[flow.ev[e].enriched + 1] = step

\* "Send to UI First": the summary of event e is put into the UI channel
Summarize(e) ==
    /\ AtEnrichmentStep(e, "summary")
    /\ flow' = [flow EXCEPT
                  !.ev = FlowStep(e, [enriched |-> flow.ev[e].enriched + 1]),
                  !.ui = Append(@, [msg |-> "NewTransaction", hash |-> flow.ev[e].hash,
                                    ev |-> e])]
    /\ UNCHANGED <<app, main, call, listener_vars, task_vars, chan_vars, det_vars>>

\* "Send to Processor (Blocked if full)": the channel has room and takes e
Forward(e) ==
    /\ AtEnrichmentStep(e, "forward")
    /\ proc_pc = "recv"
    /\ Len(flow.chan) < CHANNEL_CAPACITY
    /\ flow' = [flow EXCEPT
                  !.ev = FlowStep(e, [enriched |-> flow.ev[e].enriched + 1, at |-> "chan"]),
                  !.chan = Append(@, e)]
    /\ tx_queued' = tx_queued + 1
    /\ UNCHANGED <<app, main, call, listener_vars, task_vars, proc_pc, det_vars>>

\* `while let Some(tx) = rx.recv().await { tokio::spawn(process_transaction) }`
FlowRecvAndSpawn ==
    /\ proc_pc = "recv"
    /\ flow.chan # <<>>
    /\ LET e == Head(flow.chan)
       IN  flow' = [flow EXCEPT
                     !.ev = FlowStep(e, [at |-> "task", tasks |-> flow.ev[e].tasks + 1]),
                     !.chan = Taken(@)]
    /\ tx_queued' = tx_queued - 1
    /\ UNCHANGED <<app, main, call, listener_vars, task_vars, proc_pc, det_vars>>

\* the detection task of e gets a confidence and sends ConfidenceUpdate
FlowScore(e) ==
    /\ flow.ev[e].at = "task"
    /\ flow' = [flow EXCEPT
                  !.ev = FlowStep(e, [at |-> "scored"]),
                  !.ui = Append(@, [msg |-> "ConfidenceUpdate", hash |-> flow.ev[e].hash,
                                    ev |-> e])]
    /\ UNCHANGED <<app, main, call, listener_vars, task_vars, chan_vars, det_vars>>

\* the tensor cannot be built or the inference fails: the task returns Err
\* before the confidence report
FlowScoreFails(e) ==
    /\ flow.ev[e].at = "task"
    /\ flow' = [flow EXCEPT !.ev = FlowStep(e, [at |-> "failed"])]
    /\ UNCHANGED <<app, main, call, listener_vars, task_vars, chan_vars, det_vars>>

\* MaxFlow enrichment tasks have got their transaction from the node
InitFlow ==
    /\ sup_pc = "select"
    /\ session_result = "none"
    /\ sleep_secs = 0
    /\ sessions = 1
    /\ block_open = TRUE /\ tx_open = TRUE
    /\ last_tx = "spawned"
    /\ permits = [b \in Buckets |-> IF b = "cur" THEN PERMITS ELSE 0]
    /\ fetching = NoTasks /\ sending = NoTasks
    /\ tx_queued = 0
    /\ proc_pc = "recv"
    /\ det = <<>>
    /\ session_lock = 0 /\ stats_lock = 0
    /\ stats = NoStats
    /\ tx_counter = 0
    /\ predators = {}
    /\ main = Serving
    /\ call = NoCall
    /\ app = NewApp
    /\ \E h \in [1..MaxFlow -> FlowHashes] :
         flow = [ev |-> [e \in 1..MaxFlow |->
                          [hash |-> h[e], enriched |-> 0, at |-> "none", tasks |-> 0]],
                 chan |-> <<>>, ui |-> <<>>]

NextFlow ==
    \/ \E e \in FlowEvents : Summarize(e)
    \/ \E e \in FlowEvents : Forward(e)
    \/ FlowRecvAndSpawn
    \/ \E e \in FlowEvents : FlowScore(e)
    \/ \E e \in FlowEvents : FlowScoreFails(e)

SpecFlow == InitFlow /\ [][NextFlow]_vars

\* the processor task is polled whenever the channel holds an event
SpecFlowLive == InitFlow /\ [][NextFlow]_vars /\ WF_vars(FlowRecvAndSpawn)

-----------------------------------------------------------------------------
(* main: the chain client, the two subsystem tasks, the UI or headless loop *)

\* main returns: the runtime is dropped and with it every task, the channel
\* and the locks
Exit(result, by) ==
    /\ main' = [main EXCEPT !.pc = "returned", !.result = result, !.by = by]
    /\ sup_pc' = "aborted" /\ proc_pc' = "aborted"
    /\ session_result' = "none" /\ sleep_secs' = 0 /\ sessions' = 0
    /\ block_open' = FALSE /\ tx_open' = FALSE /\ last_tx' = "none"
    /\ permits' = NoTasks /\ fetching' = NoTasks /\ sending' = NoTasks
    /\ tx_queued' = 0
    /\ UNCHANGED <<app, flow, call, det_vars>>

\* network::build_client(&execution_config).await? answers Ok: main spawns
\* the indexer task and the processor task and enters its UI or headless loop
BuildClientOk ==
    /\ main.pc = "build_client"
    /\ main' = [main EXCEPT !.pc = "serving"]
    /\ UNCHANGED <<app, flow, call, listener_vars, task_vars, chan_vars, det_vars>>

\* ... answers Err (bad private key, the endpoint unreachable, a bad contract
\* address): the `?` returns it from main
BuildClientFails ==
    /\ main.pc = "build_client"
    /\ Exit("Err", "build_client")

\* Address::from_str(&pool_manager_str)? and (&router_str)? both parse
ParseAddressesOk ==
    /\ main.pc = "serving" /\ sup_pc = "start"
    /\ sup_pc' = "connect"
    /\ UNCHANGED <<app, flow, main, call, session_result, sleep_secs, sessions, block_open, tx_open,
                   last_tx, task_vars, chan_vars, det_vars>>

\* one of them does not: spawn_mempool_listener returns Err, the indexer task
\* logs "CRITICAL: Mempool Listener failed" and ends
ParseAddressesFails ==
    /\ main.pc = "serving" /\ sup_pc = "start"
    /\ sup_pc' = "failed"
    /\ UNCHANGED <<app, flow, main, call, session_result, sleep_secs, sessions, block_open, tx_open,
                   last_tx, task_vars, chan_vars, det_vars>>

\* the operator presses 'q': run_tui returns Ok, main aborts both tasks
TuiQuit ==
    /\ main.pc = "serving" /\ ~main.headless
    /\ Exit("Ok", "operator")

\* enable_raw_mode, the terminal setup, draw, poll or read fails: run_tui
\* returns Err, main prints it and goes on to abort both tasks
TuiFails ==
    /\ main.pc = "serving" /\ ~main.headless
    /\ Exit("Ok", "tui_error")

\* a task that holds a clone of the UI sender is alive
UiSenderHeld ==
    \/ sup_pc \notin {"failed", "aborted"}
    \/ proc_pc \notin {"failed", "aborted"}
    \/ \E b \in Buckets : fetching[b] + sending[b] > 0
    \/ \E i \in 1..Len(det) : det[i].pc # "done"

\* headless: rx.recv() answers None once every UI sender is dropped; the
\* while loop ends and main goes on to abort both tasks
HeadlessDrained ==
    /\ main.pc = "serving" /\ main.headless
    /\ ~UiSenderHeld
    /\ Exit("Ok", "ui_channel_closed")

\* the subsystems run while main is in its UI or headless loop
Subsystems == main.pc = "serving" /\ Next

InitMain ==
    /\ sup_pc = "start"
    /\ session_result = "none"
    /\ sleep_secs = 0
    /\ sessions = 0
    /\ block_open = FALSE /\ tx_open = FALSE
    /\ last_tx = "none"
    /\ permits = NoTasks /\ fetching = NoTasks /\ sending = NoTasks
    /\ tx_queued = 0
    /\ proc_pc = "init"
    /\ det = <<>>
    /\ session_lock = 0 /\ stats_lock = 0
    /\ stats = NoStats
    /\ tx_counter = 0
    /\ predators = {}
    /\ call = NoCall
    /\ \E h \in BOOLEAN :
         main = [pc |-> "build_client", headless |-> h, result |-> "none", by |-> "none"]
    /\ flow = NoFlow
    /\ app = NewApp

NextMain ==
    \/ BuildClientOk \/ BuildClientFails
    \/ ParseAddressesOk \/ ParseAddressesFails
    \/ TuiQuit \/ TuiFails \/ HeadlessDrained
    \/ Subsystems

SpecMain == InitMain /\ [][NextMain]_vars

-----------------------------------------------------------------------------
(* Admission stage: permits, sessions, restart, transfer channel *)

\* enrichment tasks in flight, all session generations together
InFlight == fetching["cur"] + sending["cur"] + fetching["old"] + sending["old"]

\* sessions whose run_listener_session has returned after reaching its loop
EndedSessions == sessions - (IF InLoop THEN 1 ELSE 0)

\* C1: over the listener's whole run, all session generations together, at
\* most 10 enrichment tasks are in flight at any instant.
C1_AtMostTenInFlightOverall == InFlight <= PERMITS

\* C2: an identifier that arrives while all 10 permits of the session are held
\* is discarded on the spot: the tx branch goes straight back to select, no
\* task is spawned, no permit is taken and nothing is queued for it.
C2_FullPoolDropsIdentifier ==
    [][ (sup_pc = "got_tx_hash" /\ permits["cur"] = 0 /\ sup_pc' # sup_pc)
          => /\ sup_pc' = "select"
             /\ last_tx' = "dropped"
             /\ UNCHANGED <<task_vars, chan_vars, sessions, block_open, tx_open>>
      ]_vars

C2_IdentifierDropped ==
    /\ last_tx = "dropped"
    /\ sup_pc = "select"
    /\ permits["cur"] = 0
    /\ fetching["cur"] + sending["cur"] = PERMITS

\* C3: a permit is held exactly as long as its enrichment task is in flight,
\* also while the task is suspended on the full transfer channel, and is given
\* back once at the task's end whatever the outcome: free permits plus tasks
\* in flight make 10 per semaphore, so a session without tasks has 10 free.
C3_PermitHeldForTaskLifetime ==
    /\ InLoop => permits["cur"] + fetching["cur"] + sending["cur"] = PERMITS
    /\ ~InLoop => permits["cur"] + fetching["cur"] + sending["cur"] = 0
    /\ permits["old"] + fetching["old"] + sending["old"] = PERMITS * EndedSessions

C3_SuspendedSenderHoldsPermit ==
    /\ sending["old"] > 0
    /\ fetching["old"] = 0
    /\ tx_queued = CHANNEL_CAPACITY
    /\ permits["old"] = PERMITS - sending["old"]

\* C4: the session returns as soon as either subscription stream has ended:
\* the select that finds a stream ended leaves the loop.
C4_ReturnsWhenEitherStreamEnds ==
    [][ (sup_pc = "select" /\ (~block_open \/ ~tx_open) /\ sup_pc' # "select")
          => sup_pc' = "sleep" ]_vars

\* C5: every return of a session, Ok or Err, is followed by one sleep of the
\* fixed 5 s and then by a new call of run_listener_session; the supervisor has
\* no other exit, so a sleeping supervisor always comes to a new attempt.
C5_SupervisorRestartsForever ==
    /\ [](sup_pc \in {"connect", "subscribe", "select", "got_header",
                      "got_tx_hash", "sleep"})
    /\ [][ (sup_pc # "sleep" /\ sup_pc' \notin {sup_pc, "subscribe", "select",
                                                 "got_header", "got_tx_hash"})
             => /\ sup_pc' = "sleep"
                /\ session_result' \in {"Ok", "Err"}
                /\ sleep_secs' = RETRY_DELAY_SECS ]_vars
    /\ [][ (sup_pc = "sleep" /\ sup_pc' # "sleep") => sup_pc' = "connect" ]_vars
    /\ (sup_pc = "sleep") ~> (sup_pc = "connect")

C5_SecondSessionEmits ==
    /\ sessions >= 2
    /\ sup_pc = "select"
    /\ last_tx = "spawned"

TotalSending == sending["cur"] + sending["old"]

\* C6: the transfer channel never holds more than 100 events; a task whose
\* send finds it full is suspended with its event instead of losing it, and a
\* suspended send that ends while the receiver is alive has put its event
\* into the slot a receive has just freed.
C6_BoundedChannelBackpressure ==
    /\ [](tx_queued <= CHANNEL_CAPACITY)
    /\ [][ /\ \A b \in Buckets :
                (FetchFound(b) /\ proc_pc # "failed" /\ tx_queued = CHANNEL_CAPACITY)
                   => (sending'[b] = sending[b] + 1 /\ tx_queued' = tx_queued)
           /\ (TotalSending' < TotalSending /\ proc_pc' # "failed")
                   => (proc_pc = "recv" /\ tx_queued = CHANNEL_CAPACITY
                       /\ tx_queued' = CHANNEL_CAPACITY)
      ]_vars

C6_SenderSuspendedOnFullChannel ==
    /\ TotalSending > 0
    /\ tx_queued = CHANNEL_CAPACITY
    /\ proc_pc = "recv"

-----------------------------------------------------------------------------
(* Detection stage: scoring lock, threshold, duplicate pre-check *)

\* detection tasks inside session_guard.run(inputs)
Inferring == {i \in Tasks : det[i].pc = "infer"}

\* C7: at any instant at most one detection task is inside the scoring call,
\* and the task that is inside it holds the scoring-session lock.
C7_InferenceUnderSessionLock ==
    /\ Cardinality(Inferring) <= 1
    /\ \A i \in Inferring : session_lock = i

C7_OneInfersOtherWaits ==
    \E i, j \in Tasks :
        /\ det[i].pc = "infer" /\ session_lock = i
        /\ det[j].pc = "session_lock"

\* the calls and messages of the detected path, from the pre-check onward
DetectedPathOps ==
    {"is_predator", "run_ezkl_pipeline", "witness", "prove", "encode",
     "extract_proof_from_calldata", "extract_public_output", "submit_detection",
     "is_predator_again"}

\* C8: an event takes the detected path (the duplicate pre-check and onward)
\* exactly when its confidence is at least the threshold; a lower confidence
\* ends the task as safe with none of the detected path's calls or counters.
C8_DetectedIffAtLeastThreshold ==
    \A i \in Tasks :
        det[i].conf # -1 =>
            /\ (det[i].conf >= CONFIDENCE_THRESHOLD) <=> ("is_predator" \in det[i].ops)
            /\ det[i].conf < CONFIDENCE_THRESHOLD =>
                 /\ det[i].pc = "done" /\ det[i].result = "Ok"
                 /\ det[i].ops \cap DetectedPathOps = {}
                 /\ det[i].counted = {"scanned"}

C8_EqualityTakesDetectedPath ==
    \E i \in Tasks :
        /\ det[i].conf = CONFIDENCE_THRESHOLD
        /\ "is_predator" \in det[i].ops
        /\ det[i].pc # "precheck"

\* the proof-pipeline steps and the submission
PipelineAndSubmitOps ==
    {"run_ezkl_pipeline", "witness", "prove", "encode",
     "extract_proof_from_calldata", "extract_public_output", "submit_detection",
     "is_predator_again"}

\* C9: when the duplicate pre-check answers 'already flagged', the task ends
\* there: no pipeline step and no submission is made for the event, the step
\* leaves the shared statistics as they are, and the task has added to none
\* of the detected, trapped, proof and economic counters.
C9_AlreadyFlaggedStopsEvent ==
    /\ [](\A i \in Tasks :
            det[i].precheck = "true" =>
                /\ det[i].pc = "done" /\ det[i].result = "Ok"
                /\ det[i].ops \cap PipelineAndSubmitOps = {}
                /\ det[i].counted = {"scanned"})
    /\ [][ \A i \in Tasks :
             (det[i].pc = "precheck" /\ det'[i].precheck = "true")
                => (stats' = stats /\ predators' = predators) ]_vars

C9_FlaggedSenderSkipped ==
    \E i \in Tasks :
        /\ det[i].precheck = "true"
        /\ det[i].pc = "done"
        /\ det[i].conf >= CONFIDENCE_THRESHOLD

\* C10: when the duplicate pre-check fails with an error the task goes on as
\* after 'not flagged': it is never ended by the pre-check, it next takes the
\* statistics lock, and past that point it has added to the detection counters
\* and handed the event to the proof pipeline.
C10_PrecheckErrorProceeds ==
    \A i \in Tasks :
        det[i].precheck = "err" =>
            /\ ~(det[i].pc = "done" /\ det[i].ops \cap PipelineAndSubmitOps = {})
            /\ \/ det[i].pc \in {"detect_lock", "detect"}
               \/ /\ {"detected", "trapped", "eth_saved", "gas_saved"} \subseteq det[i].counted
                  /\ "run_ezkl_pipeline" \in det[i].ops

C10_ErrorThenPipelineRan ==
    \E i \in Tasks :
        /\ det[i].precheck = "err"
        /\ "detected" \in det[i].counted
        /\ "witness" \in det[i].ops

-----------------------------------------------------------------------------
(* Detection stage: the shared statistics *)

\* 100 * trapped / scanned in whole percent, 0 when nothing was scanned
Ratio(st) ==
    IF st.total_scanned = 0 THEN 0 ELSE (st.total_trapped * 100) \div st.total_scanned

\* C11: in every state of the shared statistics that is visible outside the
\* lock, efficiency_boost equals 100 * trapped / scanned (0 when scanned is 0),
\* also after a scan that leads to no detection.
C11_EfficiencyIsTrappedOverScanned ==
    stats_lock = 0 => stats.efficiency_boost = Ratio(stats)

\* C12: no step of any detection task, in any interleaving, lowers the
\* scanned, detected, trapped or proofs-generated counter.
C12_CountersNeverDecrease ==
    [][ /\ stats'.total_scanned >= stats.total_scanned
        /\ stats'.total_detected >= stats.total_detected
        /\ stats'.total_trapped >= stats.total_trapped
        /\ stats'.zk_proofs_generated >= stats.zk_proofs_generated ]_vars

C12_AllCountersMoved ==
    /\ stats.total_scanned = 2
    /\ stats.total_detected = 2
    /\ stats.total_trapped = 2
    /\ stats.zk_proofs_generated >= 1

\* C13: outside the statistics lock history_saved never holds more than 100
\* entries; a sample pushed onto a full history removes the oldest entry,
\* keeps the others in their order and goes to the end.
C13_HistoryCappedOldestDropped ==
    /\ [](Len(stats.history_saved) <= HISTORY_CAP)
    /\ [][ (stats'.history_saved # stats.history_saved
              /\ Len(stats.history_saved) = HISTORY_CAP)
             => /\ Len(stats'.history_saved) = HISTORY_CAP
                /\ SubSeq(stats'.history_saved, 1, HISTORY_CAP - 1) = Tail(stats.history_saved)
                /\ stats'.history_saved[HISTORY_CAP] = stats'.eth_saved \div 100 ]_vars

C13_OldestSampleRemoved ==
    /\ stats.total_detected = HISTORY_CAP + 1
    /\ Len(stats.history_saved) = HISTORY_CAP
    /\ stats.history_saved[1] = 40

-----------------------------------------------------------------------------
(* Detection stage: pure functions *)

\* the confidence the selection policy prescribes for outputs o
PolicyConfidence(o) ==
    IF Len(o) >= 2 /\ o[2].kind = "f32" /\ Len(o[2].data) >= 2
      THEN o[2].data[2]
      ELSE IF o[1].kind = "f32" /\ Len(o[1].data) >= 1 THEN o[1].data[1]
      ELSE IF o[1].kind = "i64" /\ Len(o[1].data) >= 1 THEN o[1].data[1] * 100
      ELSE 0

\* C14: the confidence is element 1 of the second output when there are at
\* least 2 outputs and the second is a f32 tensor of at least 2 elements;
\* otherwise the first element of the first output, read as f32 if possible,
\* else as i64 converted to f32, else 0.0 -- for every list of outputs.
C14_ConfidenceSelectionPolicy ==
    (call.fn = "select_confidence" /\ call.done)
        => call.ret = Value(PolicyConfidence(call.arg))

\* O of a buffer: the big-endian value of bytes 32..35
OffsetOf(d) == d[33] * 16777216 + d[34] * 65536 + d[35] * 256 + d[36]

\* L of a buffer: the big-endian value of the last 4 bytes of the word at 4 + O
LengthOf(d) ==
    LET w == 4 + OffsetOf(d)
    IN  d[w + 29] * 16777216 + d[w + 30] * 65536 + d[w + 31] * 256 + d[w + 32]

\* d with its bytes 0..3 replaced by sel
WithSelector(d, sel) == [i \in 1..Len(d) |-> IF i <= 4 THEN sel[i] ELSE d[i]]

\* C15: for every accepted calldata buffer the result is exactly the L bytes
\* that follow the length word at 4 + O, and the same buffer with any other
\* selector gives the same result.
C15_ProofIsPayloadAfterLengthWord ==
    (call.fn = "extract_proof_from_calldata" /\ call.done /\ call.ret.kind = "ok")
        => /\ call.ret.bytes =
                [k \in 1..LengthOf(call.arg) |-> call.arg[4 + OffsetOf(call.arg) + 32 + k]]
           /\ \A sel \in Selectors :
                ExtractProofFromCalldata(WithSelector(call.arg, sel)) = call.ret

C15_ThreeByteProofExtracted ==
    /\ call.fn = "extract_proof_from_calldata" /\ call.done
    /\ Len(call.arg) = 103
    /\ OffsetOf(call.arg) = 64
    /\ call.ret = Ok(<<170, 187, 204>>)

\* C16: a calldata buffer shorter than 100 bytes, or whose length word ends
\* past the buffer (4 + O + 32 > length), or whose payload ends past the
\* buffer (4 + O + 32 + L > length) is rejected with an error; no buffer makes
\* the extraction read outside it.
C16_MalformedCalldataRejected ==
    (call.fn = "extract_proof_from_calldata" /\ call.done)
        => /\ call.ret.kind # "panic"
           /\ LET d == call.arg
                  malformed ==
                      IF Len(d) < 100 THEN TRUE
                      ELSE IF 4 + OffsetOf(d) + 32 > Len(d) THEN TRUE
                      ELSE 4 + OffsetOf(d) + 32 + LengthOf(d) > Len(d)
              IN  malformed <=> call.ret.kind = "err"

C16_PayloadPastEndRejected ==
    /\ call.fn = "extract_proof_from_calldata" /\ call.done
    /\ Len(call.arg) >= 100
    /\ 4 + OffsetOf(call.arg) + 32 <= Len(call.arg)
    /\ 4 + OffsetOf(call.arg) + 32 + LengthOf(call.arg) = Len(call.arg) + 1
    /\ call.ret.kind = "err"

-----------------------------------------------------------------------------
(* Detection stage: the proof pipeline *)

\* the task is past a pipeline that returned Ok(true)
PipelineSucceeded(i) ==
    \/ det[i].pc \in {"proof_lock", "proof_count", "extract", "submit", "verify"}
    \/ "zk_proofs_generated" \in det[i].counted

\* C17: the pipeline starts its commands in the order witness generation,
\* proof generation, calldata encoding; a command is started only when every
\* earlier one exited successfully, an unsuccessful exit ends the pipeline
\* with a failure and no later command, and the pipeline reports success
\* only when all three exited successfully.
C17_PipelineStepsInOrder ==
    \A i \in Tasks :
        LET x == det[i].exits
        IN  /\ Len(x) <= 3
            /\ \A k \in 1..Len(x) :
                 /\ x[k].step = <<"witness", "prove", "encode">>[k]
                 /\ k < Len(x) => x[k].exit = "ok"
            /\ (Len(x) > 0 /\ x[Len(x)].exit # "ok") =>
                 (det[i].pc = "done" /\ ~PipelineSucceeded(i))
            /\ PipelineSucceeded(i) =>
                 (Len(x) = 3 /\ \A k \in 1..3 : x[k].exit = "ok")

C17_ProveFailsAfterWitness ==
    \E i \in Tasks :
        /\ Len(det[i].exits) = 2
        /\ det[i].exits[1] = [step |-> "witness", exit |-> "ok"]
        /\ det[i].exits[2] = [step |-> "prove", exit |-> "exit_failure"]
        /\ det[i].pc = "done"

\* C18: two pipeline runs in progress at the same time never use a common
\* witness, proof or calldata path, whatever events are delivered, the same
\* transaction identifier twice included.
C18_ConcurrentRunsUseDisjointPaths ==
    \A i, j \in Tasks :
        (i # j /\ InPipeline(i) /\ InPipeline(j))
            => ArtifactPaths(det[i].ev.hash) \cap ArtifactPaths(det[j].ev.hash) = {}

\* the pipeline of task i has failed: its last command did not exit
\* successfully, or could not be executed
PipelineFailed(i) ==
    /\ Len(det[i].exits) > 0
    /\ det[i].exits[Len(det[i].exits)].exit # "ok"

\* C19: whenever the pipeline fails for an event, by an unsuccessful exit or
\* by a command that cannot be executed, the Error stage is the last thing
\* reported for the event and neither extraction nor submission is made.
C19_PipelineFailureReportsError ==
    \A i \in Tasks :
        PipelineFailed(i) =>
            /\ Len(det[i].ui) > 0 /\ det[i].ui[Len(det[i].ui)] = "Error"
            /\ det[i].ops \cap {"extract_proof_from_calldata", "extract_public_output",
                                "submit_detection"} = {}

SourceOf(j) == IF j.pretty_elements.kind # "absent" THEN j.pretty_elements ELSE j.root

\* field f holds at least one value, in an inner array or standing for itself
HoldsValue(f) == f.kind = "array" /\ \E k \in 1..Len(f.items) : f.items[k].vals # <<>>

\* C21: public-input extraction never returns an empty list: when neither
\* `inputs` nor `outputs` holds a value at the place it reads from, it fails
\* with the error that no public inputs were found.
C21_EmptyPublicInputsRejected ==
    (call.fn = "extract_public_output" /\ call.done)
        => /\ call.ret.kind = "ok" => call.ret.bytes # <<>>
           /\ LET src == SourceOf(call.arg)
              IN  (src.kind # "object" \/ (~HoldsValue(src.inputs) /\ ~HoldsValue(src.outputs)))
                     => call.ret = Err("No public inputs found in witness.json")

C21_EmptyArraysRejected ==
    /\ call.fn = "extract_public_output" /\ call.done
    /\ call.arg.root.kind = "object"
    /\ call.arg.pretty_elements.kind = "absent"
    /\ call.arg.root.inputs = [kind |-> "array", items |-> <<[kind |-> "array", vals |-> <<>>]>>]
    /\ call.arg.root.outputs = [kind |-> "array", items |-> <<>>]
    /\ call.ret.kind = "err"

\* message m is among the UI messages of task i
Sent(i, m) == \E k \in 1..Len(det[i].ui) : det[i].ui[k] = m

\* C22: the duplicate check is asked again only after a submission that
\* succeeded; whatever it answers, the task ends with the submission still
\* reported as successful and never goes back to submit, and the only
\* message the answer can add is the success line (true) or the warning
\* (false), nothing on an error.
C22_RequeryOnlyAfterSuccessfulSubmission ==
    [][ \A i \in Tasks :
          /\ ("is_predator_again" \in det'[i].ops)
                => /\ "submit_detection" \in det'[i].ops
                   /\ \E k \in 1..Len(det'[i].ui) : det'[i].ui[k] = "Log:Trapped"
                   /\ \A k \in 1..Len(det'[i].ui) : det'[i].ui[k] # "Log:Trap Failed"
          /\ (det[i].pc = "submit" /\ det'[i].pc = "done")
                => "is_predator_again" \notin det'[i].ops
          /\ (det[i].pc = "verify" /\ det'[i] # det[i])
                => /\ det'[i].pc = "done" /\ det'[i].result = "Ok"
                   /\ det'[i].ops = det[i].ops
                   /\ predators' = predators
                   /\ det'[i].ui \in {det[i].ui, Append(det[i].ui, "Log:SUCCESS"),
                                      Append(det[i].ui, "Log:WARNING")}
                   /\ (det'[i].ui = Append(det[i].ui, "Log:SUCCESS"))
                         => det[i].ev.from \in predators ]_vars

C22_WarningAfterSuccessfulSubmission ==
    \E i \in Tasks :
        /\ det[i].pc = "done"
        /\ Sent(i, "Log:Trapped") /\ Sent(i, "Log:WARNING")
        /\ det[i].ev.from \in predators

\* C23: no failure halts the process: main returns only when the operator
\* shuts the agent down, whichever subsystem fails and in either mode.
C23_OnlyOperatorShutdownHalts == main.pc = "returned" => main.by = "operator"

-----------------------------------------------------------------------------
(* Detection stage: the feature array *)

\* the mean and the scale the constants' comments give for each feature
MeanOf ==
    [gas_price_gwei |-> 9687, priority_fee_gwei |-> 7566, gas_usage_ratio |-> 5726,
     gas_used |-> 570147, native_value |-> 4808, tx_index |-> 548847]
ScaleOf ==
    [gas_price_gwei |-> 72389, priority_fee_gwei |-> 71001, gas_usage_ratio |-> 1897,
     gas_used |-> 871445, native_value |-> 115834, tx_index |-> 852015]

\* the order of the features in the array
FEATURE_ORDER ==
    <<"gas_price_gwei", "priority_fee_gwei", "gas_usage_ratio", "gas_used", "native_value",
      "tx_index">>

C25_ArrayInDocumentedOrder ==
    (call.fn = "normalize_features" /\ call.done)
        => call.ret.arr = <<call.arg.tx_index, call.arg.gas_price_gwei,
                            call.arg.priority_fee_gwei, call.arg.gas_used,
                            call.arg.native_value, call.arg.gas_usage_ratio>>

\* C26: an event scored below the threshold ends with the confidence report:
\* that step ends the task, makes no call and leaves the shared statistics
\* alone; the task has made no duplicate pre-check, no pipeline step and no
\* submission, and of the counters it has added to the scanned one only.
C26_SafeEventStopsAfterConfidenceReport ==
    [][ \A i \in Tasks :
          (det'[i].conf # -1 /\ det'[i].conf < CONFIDENCE_THRESHOLD)
             => /\ det'[i].pc = "done" /\ det'[i].result = "Ok"
                /\ det'[i].ui[Len(det'[i].ui)] = "ConfidenceUpdate"
                /\ det'[i].ops \cap DetectedPathOps = {}
                /\ det'[i].counted = {"scanned"}
                /\ det[i].pc = "infer"
                      => /\ det'[i].ops = det[i].ops
                         /\ det'[i].ui = Append(det[i].ui, "ConfidenceUpdate")
                         /\ stats' = stats /\ stats_lock' = stats_lock
                         /\ predators' = predators ]_vars

C26_SafeEventOnlyScanned ==
    \E i \in Tasks :
        /\ det[i].conf = 79 /\ det[i].pc = "done"
        /\ stats.total_scanned >= 1
        /\ stats.total_detected = 0 /\ stats.zk_proofs_generated = 0

\* task i has passed the duplicate pre-check and its submission has not
\* been answered yet
PassedPrecheckNotSubmitted(i) ==
    /\ det[i].precheck = "false"
    /\ det[i].pc \in {"detect_lock", "detect", "witness", "prove", "encode", "proof_lock",
                      "proof_count", "extract", "submit"}

\* C27: the duplicate pre-check and the submission are separate steps with
\* nothing held in between: while one task for a sender has passed the
\* pre-check and not yet submitted and the sender is not flagged, the
\* pre-check of another task for the same sender lets that task proceed too,
\* so both tasks can submit for the one address.
C27_PrecheckAndSubmissionNotAtomic ==
    [][ \A i, j \in Tasks :
          ( /\ i # j /\ det[i].ev.from = det[j].ev.from
            /\ det[j].ev.from \notin predators
            /\ PassedPrecheckNotSubmitted(i)
            /\ det[j].pc = "precheck" /\ det'[j].pc # "precheck" )
             => /\ det'[j].pc = "detect_lock"
                /\ det'[j].precheck \in {"false", "err"}
                /\ det'[i] = det[i] ]_vars

C27_TwoSubmissionsForOneAddress ==
    \E i, j \in Tasks :
        /\ i # j /\ det[i].ev.from = det[j].ev.from
        /\ det[i].precheck = "false" /\ det[j].precheck = "false"
        /\ Sent(i, "Log:Trapped") /\ Sent(j, "Log:Trapped")
        /\ det[i].ev.from \in predators

\* tasks that have made their scanned update
ScannedTasks == {i \in Tasks : "scanned" \in det[i].counted}

\* C28: every event taken from the channel gets one task, and the scanned
\* counter is the number of tasks that have made their first update, whatever
\* the interleaving: once every started task is past that step, scanned
\* equals the number of events received.
C28_ScannedCountsEveryEventOnce ==
    /\ Len(det) + tx_queued = MaxEvents
    /\ stats.total_scanned = Cardinality(ScannedTasks)
    /\ (\A i \in Tasks : det[i].pc \notin {"scan_lock", "scan"})
          => stats.total_scanned = Len(det)

C28_AllReceivedEventsScanned ==
    /\ Len(det) = MaxEvents /\ MaxEvents >= 2
    /\ \A i \in Tasks : det[i].pc \notin {"scan_lock", "scan"}
    /\ stats.total_scanned = MaxEvents
    /\ \E i \in Tasks : det[i].pc # "done"

\* where a task stands inside one of the three statistics blocks
StatsBlockPcs == {"scan", "detect", "proof_count"}

\* C29: the statistics lock is held only inside the three statistics blocks,
\* where the task waits for nothing: not for the scoring-session lock, a
\* chain call, the inference or an ezkl command; the holder's next step
\* releases it.
C29_StatsLockNotHeldAcrossWaits ==
    [][ \A i \in Tasks :
          stats_lock = i
             => /\ det[i].pc \in StatsBlockPcs
                /\ session_lock # i
                /\ det'[i] # det[i] => (stats_lock' = 0 /\ det'[i].pc \notin StatsBlockPcs) ]_vars

C29_HeldWhileAnotherTaskWaits ==
    \E i, j \in Tasks :
        /\ stats_lock = i /\ det[i].pc = "detect"
        /\ det[j].pc = "scan_lock"

\* task j has been scanned and scored, or its own inference call has failed
ScannedAndScored(j) ==
    /\ "scanned" \in det[j].counted
    /\ det[j].conf # -1 \/ det[j].result = "Err"

\* C30: a task inside the proof pipeline holds neither the scoring-session
\* lock nor the statistics lock, and whether or not an ezkl command ever
\* exits, every event taken from the channel is scanned and scored.
C30_HungPipelineStallsOnlyItsTask ==
    /\ [](\A i \in Tasks : InPipeline(i) => (session_lock # i /\ stats_lock # i))
    /\ \A j \in 1..MaxEvents : <>(j \in Tasks /\ ScannedAndScored(j))

C30_ClassifiedWhilePipelineRuns ==
    \E i, j \in Tasks :
        /\ i < j
        /\ det[i].pc = "witness" /\ det[i].exits = <<>>
        /\ det[j].pc = "done" /\ det[j].conf # -1
        /\ session_lock = 0 /\ stats_lock = 0

-----------------------------------------------------------------------------
(* Reporting: the stage updates of an event *)

\* UiMessage::ProcessingUpdate(stage), by the name of the stage
IsStageUpdate(m) ==
    m \in {"NormalizingData", "GeneratingWitness", "CreatingZKProof", "ProofComplete", "Error"}

\* the stage updates task i has sent, in order
StageUpdates(i) == SelectSeq(det[i].ui, IsStageUpdate)

\* C31: the stage updates of one event are a prefix of NormalizingData,
\* GeneratingWitness, CreatingZKProof followed by at most one terminal update,
\* ProofComplete or Error; a terminal update comes only after the three
\* others and nothing follows it.
C31_StageUpdatesInOrder ==
    \A i \in Tasks :
        LET u == StageUpdates(i)
            order == <<"NormalizingData", "GeneratingWitness", "CreatingZKProof">>
        IN  /\ Len(u) <= 4
            /\ \A k \in 1..Len(u) :
                 IF k <= 3 THEN u[k] = order[k] ELSE u[k] \in {"ProofComplete", "Error"}

C31_ErrorAfterCreatingZKProof ==
    \E i \in Tasks :
        StageUpdates(i) = <<"NormalizingData", "GeneratingWitness", "CreatingZKProof", "Error">>

RECURSIVE ValuesInOrder(_)
\* the JSON values under the elements of an array, in document order
ValuesInOrder(items) ==
    IF items = <<>> THEN <<>> ELSE Head(items).vals \o ValuesInOrder(Tail(items))

\* the JSON values of key `inputs` or `outputs` of object src
ValuesAt(src, key) ==
    IF src.kind = "object" /\ src[key].kind = "array" THEN ValuesInOrder(src[key].items)
    ELSE <<>>

\* what the JSON values of the model stand for: "0x2a" is 42, 7 is 7
NumberOf(v) == IF v = HexValue THEN 42 ELSE 7

\* C32: public-input extraction reads `inputs` and then `outputs` of
\* pretty_elements when the witness has that key and of the top level when
\* it has not; it returns their values in document order, all inputs before
\* all outputs, and fails as a whole when one value read cannot be parsed.
C32_PreferPrettyElementsInputsFirst ==
    (call.fn = "extract_public_output" /\ call.done)
        => LET src == SourceOf(call.arg)
               all == ValuesAt(src, "inputs") \o ValuesAt(src, "outputs")
           IN  IF \E k \in 1..Len(all) : all[k] = BoolValue
                 THEN call.ret = Err("Invalid value type")
                 ELSE all # <<>> =>
                        call.ret = Ok([k \in 1..Len(all) |-> NumberOf(all[k])])

C32_PrettyElementsPreferredOverRoot ==
    /\ call.fn = "extract_public_output" /\ call.done
    /\ call.arg.pretty_elements.kind = "object"
    /\ call.arg.root.inputs.kind = "array"
    /\ call.ret = Ok(<<42, 7>>)
    /\ ValuesAt(call.arg.pretty_elements, "inputs") = <<HexValue>>
    /\ ValuesAt(call.arg.pretty_elements, "outputs") = <<U64Value>>

-----------------------------------------------------------------------------
(* Reporting and transfer: the order of the summary and the confidence *)

\* C33: in the UI channel every confidence update is preceded by the
\* new-transaction summary of the same event, and so of the same hash,
\* under every interleaving of the enrichment and detection tasks.
C33_SummaryBeforeConfidenceUpdate ==
    \A k \in 1..Len(flow.ui) :
        flow.ui[k].msg = "ConfidenceUpdate"
           => \E j \in 1..(k - 1) :
                /\ flow.ui[j].msg = "NewTransaction"
                /\ flow.ui[j].ev = flow.ui[k].ev
                /\ flow.ui[j].hash = flow.ui[k].hash

C33_TwoEventsReportedInterleaved ==
    /\ Len(flow.ui) = 4
    /\ flow.ui[1].msg = "NewTransaction" /\ flow.ui[2].msg = "NewTransaction"
    /\ flow.ui[3].msg = "ConfidenceUpdate" /\ flow.ui[3].ev = flow.ui[2].ev
    /\ flow.ui[4].msg = "ConfidenceUpdate" /\ flow.ui[4].ev = flow.ui[1].ev

\* how many times event e stands in the transfer channel
TimesInChannel(e) == Cardinality({k \in 1..Len(flow.chan) : flow.chan[k] = e})

\* C36: while the processor loop runs, an event put into the transfer
\* channel stands in it once until it is taken, is then handed to exactly
\* one detection task and is in the channel no more; and every event in the
\* channel is eventually taken.
C36_ChannelEventsHandedToOneTask ==
    /\ [](\A e \in FlowEvents :
            /\ flow.ev[e].tasks <= 1
            /\ TimesInChannel(e) = (IF flow.ev[e].at = "chan" THEN 1 ELSE 0)
            /\ flow.ev[e].tasks = (IF flow.ev[e].at \in {"task", "scored", "failed"} THEN 1 ELSE 0))
    /\ \A e \in 1..MaxFlow :
         (flow.ev[e].at = "chan") ~> (flow.ev[e].at = "task" /\ flow.ev[e].tasks = 1)

C36_OneTakenOneStillQueued ==
    \E e, f \in FlowEvents :
        /\ flow.ev[e].at = "task" /\ flow.ev[e].tasks = 1
        /\ flow.ev[f].at = "chan" /\ flow.chan = <<f>>

-----------------------------------------------------------------------------
(* Detection stage: the counters against each other, and the two locks *)

\* C34: in every state of the shared statistics trapped equals detected and
\* proofs generated <= detected <= scanned, also after a proof pipeline or a
\* submission has failed.
C34_TrappedEqualsDetected ==
    /\ stats.total_trapped = stats.total_detected
    /\ stats.zk_proofs_generated <= stats.total_detected
    /\ stats.total_detected <= stats.total_scanned

C34_TrapKeptAfterFailures ==
    /\ \E i \in Tasks : PipelineFailed(i)
    /\ \E j \in Tasks : Sent(j, "Log:Trap Failed")
    /\ stats.total_trapped = 2 /\ stats.total_detected = 2
    /\ stats.zk_proofs_generated = 1

\* where a task waits for one of the two locks
LockWaitPcs == {"scan_lock", "session_lock", "detect_lock", "proof_lock"}

\* C35: no task holds the scoring-session lock and the statistics lock
\* together, the session lock is held only around the inference and a
\* finished task holds no lock, also when the inference failed; and under
\* fair scheduling a task that waits for a lock gets it.
C35_LocksCannotDeadlock ==
    /\ [](\A i \in Tasks :
            /\ ~(session_lock = i /\ stats_lock = i)
            /\ session_lock = i => det[i].pc = "infer"
            /\ det[i].pc = "done" => (session_lock # i /\ stats_lock # i))
    /\ \A i \in 1..MaxEvents :
         (i \in Tasks /\ det[i].pc \in LockWaitPcs)
            ~> (i \in Tasks /\ det[i].pc \notin LockWaitPcs)

C35_LockTakenAfterFailedInference ==
    \E i, j \in Tasks :
        /\ det[i].pc = "done" /\ det[i].result = "Err" /\ det[i].conf = -1
        /\ session_lock = j /\ det[j].pc = "infer" /\ i < j

\* C37: CreatingZKProof is reported for an event only after the witness
\* generation of that event has exited successfully.
C37_CreatingZKProofAfterWitnessDone ==
    \A i \in Tasks :
        Sent(i, "CreatingZKProof")
           => /\ Len(det[i].exits) >= 1
              /\ det[i].exits[1] = [step |-> "witness", exit |-> "ok"]

\* parse_val was called with a string of decimal digits only, without 0x
DecimalDigitString ==
    /\ call.fn = "parse_val" /\ call.done
    /\ call.arg.t = "str"
    /\ call.arg.s # <<>>
    /\ \A k \in 1..Len(call.arg.s) :
         call.arg.s[k] \in {"0", "1", "2", "3", "4", "5", "6", "7", "8", "9"}

\* C38: a string value without the 0x prefix that is made of decimal digits
\* only is read as a base-16 number ("10" gives 16); the base-10 reading
\* never decides its value.
C38_DecimalDigitsAlwaysReadBase16 ==
    DecimalDigitString
        => /\ call.ret.kind = "ok"
           /\ call.ret.bytes = NumberWritten(call.arg.s, 16)

\* C38, amended: such a string is read as a base-16 number when that number
\* fits 256 bits (at most 64 significant digits); with 65 to 78 significant
\* digits the base-16 parse fails and the base-10 reading decides the value
\* if it fits 256 bits; otherwise the value is rejected.
C38_DecimalDigitsReadBase16WhenItFits ==
    DecimalDigitString
        => LET d == Significant(call.arg.s)
           IN  IF Len(d) <= 64
                 THEN call.ret.kind = "ok" /\ call.ret.bytes = NumberWritten(d, 16)
               ELSE IF Len(d) < 78 \/ (Len(d) = 78 /\ ~DigitsGreater(d, U256_MAX_DECIMAL))
                 THEN call.ret.kind = "ok" /\ call.ret.bytes = [base |-> 10, digits |-> d]
               ELSE call.ret = Err("Failed to parse value string")

C38_TenGivesSixteen ==
    /\ DecimalDigitString
    /\ call.arg.s = <<"1", "0">>
    /\ call.ret.kind = "ok" /\ call.ret.bytes = 16

(* ---------------------------------------------------------------------- *)
(* run_tui (ui/mod.rs) and App (ui/app.rs).  recent_transactions and logs *)
(* are followed by their lengths.  A row index is a usize: it is written   *)
(* as n, counted from 0, or as usize::MAX - n, so that a subtraction below *)
(* 0 and an addition above usize::MAX land where they do in the program.   *)
(* Arithmetic overflow panics in a build with overflow checks and wraps in *)
(* a build without them: both outcomes are steps of the model.             *)

\* recent_transactions is cut back to this length by NewTransaction
TX_LIST_CAP == 100

\* logs is cut back towards this length by Log
LOG_CAP == 50

\* how far the selected row is followed upward from 0
MaxRows == 101

\* how far the selected row is followed downward from usize::MAX
MaxBelow == 2

\* how long logs is followed
MaxLogs == 52

\* Some(n)
Some(n) == [some |-> TRUE, top |-> FALSE, n |-> n]

\* Some(usize::MAX - n)
SomeFromMax(n) == [some |-> TRUE, top |-> TRUE, n |-> n]

\* the row is followed by the model
RowFollowed(row) == row.n <= (IF row.top THEN MaxBelow ELSE MaxRows)

\* i + 1 for an index i below usize::MAX
Inc(i) == IF i.top THEN SomeFromMax(i.n - 1) ELSE Some(i.n + 1)

\* i - 1 for an index i above 0
Dec(i) == IF i.top THEN SomeFromMax(i.n + 1) ELSE Some(i.n - 1)

\* i >= len for a length that is no more than TX_LIST_CAP
AtLeast(i, len) == i.top \/ i.n >= len

\* the interface task has panicked
Panicked == [app EXCEPT !.pc = "panicked"]

\* table_state.select(row)
SelectRow(row) == [app EXCEPT !.selected = row]

UiFrame == UNCHANGED <<flow, main, call, listener_vars, task_vars, chan_vars, det_vars>>

\* UiMessage::NewTransaction: insert at the front, pop past the cap, and move
\* the selection down by one row
NewTransaction ==
    /\ app.pc = "running"
    /\ LET inserted == app.recent_transactions + 1
           kept == IF inserted > TX_LIST_CAP THEN inserted - 1 ELSE inserted
           listed == [app EXCEPT !.recent_transactions = kept]
       IN  IF ~app.selected.some THEN app' = listed
           ELSE IF app.selected = SomeFromMax(0)
             THEN \/ app' = [listed EXCEPT !.pc = "panicked"]
                  \/ app' = [listed EXCEPT !.selected = Some(0)]
           ELSE app' = [listed EXCEPT !.selected = Inc(app.selected)]
    /\ RowFollowed(app'.selected)
    /\ UiFrame

\* UiMessage::ConfidenceUpdate(hash, c): a log entry is pushed when a listed
\* transaction has the hash and c reaches the threshold
ConfidenceUpdate ==
    /\ app.pc = "running"
    /\ \E found \in BOOLEAN, c \in {20, CONFIDENCE_THRESHOLD} :
         /\ found => app.recent_transactions > 0
         /\ app' = IF found /\ c >= CONFIDENCE_THRESHOLD
                     THEN [app EXCEPT !.logs = @ + 1]
                     ELSE app
    /\ app'.logs <= MaxLogs
    /\ UiFrame

\* UiMessage::Log(msg): push, then remove the oldest entry if more than
\* LOG_CAP are held
Log ==
    /\ app.pc = "running"
    /\ LET pushed == app.logs + 1
       IN  app' = [app EXCEPT !.logs = IF pushed > LOG_CAP THEN pushed - 1 ELSE pushed]
    /\ app'.logs <= MaxLogs
    /\ UiFrame

\* App::next (key Down)
App_next ==
    /\ app.pc = "running"
    /\ LET i == app.selected
           len == app.recent_transactions
       IN  IF ~i.some THEN app' = SelectRow(Some(0))
           ELSE IF len = 0
             THEN \/ app' = Panicked
                  \/ app' = SelectRow(IF i = SomeFromMax(0) THEN Some(0) ELSE Inc(i))
           ELSE app' = SelectRow(IF AtLeast(i, len - 1) THEN Some(0) ELSE Inc(i))
    /\ RowFollowed(app'.selected)
    /\ UiFrame

\* App::previous (key Up)
App_previous ==
    /\ app.pc = "running"
    /\ LET i == app.selected
           len == app.recent_transactions
       IN  IF ~i.some THEN app' = SelectRow(Some(0))
           ELSE IF i = Some(0)
             THEN IF len = 0
                    THEN \/ app' = Panicked
                         \/ app' = SelectRow(SomeFromMax(0))
                    ELSE app' = SelectRow(Some(len - 1))
           ELSE app' = SelectRow(Dec(i))
    /\ RowFollowed(app'.selected)
    /\ UiFrame

\* App::unselect (key Esc)
App_unselect ==
    /\ app.pc = "running"
    /\ app' = SelectRow(NoneSelected)
    /\ UiFrame

\* the indexes select_index is called with: the ends of the list and the
\* two past its end
Indexes(len) == {0, len, len + 1} \cup (IF len > 0 THEN {len - 1} ELSE {})

\* App::select_index(index); a left click on a row does the same
App_select_index ==
    /\ app.pc = "running"
    /\ \E index \in Indexes(app.recent_transactions) :
         app' = IF index < app.recent_transactions THEN SelectRow(Some(index)) ELSE app
    /\ UiFrame

InitUi == Quiet /\ call = NoCall

NextUi ==
    \/ NewTransaction
    \/ ConfidenceUpdate
    \/ Log
    \/ App_next
    \/ App_previous
    \/ App_unselect
    \/ App_select_index

SpecUi == InitUi /\ [][NextUi]_vars

\* C39: the operation log never holds more than 50 entries, whatever log
\* lines and confidence updates at or above the threshold have arrived.
C39_LogsAtMostFifty == app.logs <= LOG_CAP

\* C40: the selected row is none or an index smaller than the number of
\* listed transactions, which is at most 100, and next and previous never
\* underflow: the interface does not panic and no row wraps around.
C40_SelectionWithinList ==
    /\ app.pc = "running"
    /\ app.recent_transactions <= TX_LIST_CAP
    /\ app.selected.some
         => ~app.selected.top /\ app.selected.n < app.recent_transactions

====
